---- MODULE Spec2Model ----
(***************************************************************************)
(* DocFlux bulk converter: file classification, the compatibility matrix,  *)
(* the conversion-error oracle, the convertFile engine (vite.config.ts,    *)
(* which holds utils/bulkConverter) and the conversion queue of            *)
(* BulkConverterPage (components/FileUpload.tsx).                          *)
(*                                                                         *)
(* Conventions.  A file name is the sequence of its dot-separated segments *)
(* (<<"a","tar","gz">> is "a.tar.gz"), so that name.split('.') is the name *)
(* itself.  A progress value is an exact rational [n, d] (n/d), because    *)
(* the code computes some of them by floating-point division.  The arrow   *)
(* U+2192 of the oracle messages is written "->".                          *)
(***************************************************************************)
EXTENDS Integers, Sequences, FiniteSets, TLC

VARIABLES
    queue,          \* useState<QueueItem[]>            FileUpload.tsx:179
    targetFormat,   \* useState('pdf')                  FileUpload.tsx:180
    isConverting,   \* useState(false)                  FileUpload.tsx:181
    overallProgress,\* useState(0), kept as <<completed, total>>  :182
    selectedFiles,  \* useState<Set<string>>, in insertion order  :185
    selectedTypeTargets, \* useState<Record<..>>        FileUpload.tsx:186
    selectedIds,    \* useState<Set<string>>            FileUpload.tsx:189
    toast,          \* the last toast shown, with the handler that showed it
    batch,          \* the running batch loop (convertAll / convertSpecific / convertSelectedFiles)
    retries,        \* the retryItem calls in flight
    running,        \* the coroutine that holds the JS thread, or NobodyRuns
    nextId,         \* stands for Date.now()/Math.random() in item ids
    call,           \* a stand-alone convertFile call (engine specification)
    log,            \* the values that call has passed to onProgress
    prev,           \* the blob returned by the call before, when re-converting
    layout,         \* a text laid out on PDF pages: the line count and the lines drawn
    batchIn,        \* input of the matrix/oracle evaluation: a list of files
    tgtIn,          \* input of the oracle evaluation: a target format
    validOut,       \* getValidTargetFormats(batchIn)
    errOut,         \* getConversionError(each file of batchIn, tgtIn)
    mpc,            \* "choose", "chosen" or "done": where the evaluation stands
    pages,          \* useState<PageData[]>              EditorPage.tsx:12
    selectedPages,  \* useState<Set<string>>             EditorPage.tsx:13
    isProcessing,   \* useState(false)                   EditorPage.tsx:14
    processingProgress, \* useState(0)                   EditorPage.tsx:15
    editorToast,    \* the toast shown by the step just taken
    job,            \* the handleMergePDF / handleExportPDF call in flight
    download,       \* the PDF handed to downloadPDF by the step just taken
    nextPageId,     \* stands for Date.now() in page ids
    archive         \* the last createZipDownload call: its arguments and the zip made

queueVars  == <<queue, targetFormat, isConverting, overallProgress, selectedFiles,
                selectedTypeTargets, selectedIds, toast, batch, retries, running,
                nextId, archive>>
engineVars == <<call, log, prev, layout>>
matrixVars == <<batchIn, tgtIn, validOut, errOut, mpc>>
editorVars == <<pages, selectedPages, isProcessing, processingProgress, editorToast, job,
                download, nextPageId>>
vars == <<queueVars, engineVars, matrixVars, editorVars>>

----------------------------------------------------------------------------
(* Bounds of the model *)

MaxQueue == 3        \* items ever added to the queue
MaxQueueSmall == 2   \* the same, in the specifications with selection or fairness
MaxDrop == 2         \* files of one drop
MaxPages == 3        \* pages of a source PDF
MaxOcrReports == 2   \* 'recognizing text' messages of one OCR run
MaxRetries == 1      \* retryItem calls in flight at once

----------------------------------------------------------------------------
(* Values *)

Undefined == "<undefined>"

P(k) == [n |-> k, d |-> 1]
PLeq(a, b) == a.n * b.d <= b.n * a.d
PEq(a, b) == a.n * b.d = b.n * a.d
PIsInt(a) == a.n % a.d = 0

File(name, type) == [name |-> name, type |-> type, big |-> FALSE]
NoFile == [name |-> <<>>, type |-> "", big |-> FALSE]

\* Blob: `same` says the value is the original File object, unchanged.
Blob(file, type, same) == [file |-> file, type |-> type, same |-> same]
NoBlob == Blob(NoFile, "", FALSE)

Pdf     == File(<<"a", "pdf">>, "application/pdf")
PdfNoExt == File(<<"scan">>, "application/pdf")
Png     == File(<<"p", "png">>, "image/png")
PngUp   == File(<<"P", "PNG">>, "image/png")
Jpg     == File(<<"j", "jpg">>, "image/jpeg")
Jpeg    == File(<<"j", "jpeg">>, "image/jpeg")
Gif     == File(<<"g", "gif">>, "")
ImgTxt  == File(<<"t", "txt">>, "image/png")
Docx    == File(<<"d", "docx">>, "application/vnd.openxmlformats-officedocument.wordprocessingml.document")
Rtf     == File(<<"r", "rtf">>, "application/rtf")
Xlsx    == File(<<"s", "xlsx">>, "application/vnd.openxmlformats-officedocument.spreadsheetml.sheet")
Csv     == File(<<"c", "csv">>, "text/csv")
Pptx    == File(<<"k", "pptx">>, "")
Txt     == File(<<"n", "txt">>, "text/plain")
Md      == File(<<"m", "v2", "md">>, "text/markdown")
MdPlain == File(<<"m", "md">>, "text/plain")
Json    == File(<<"o", "json">>, "application/json")
Unknown == File(<<"u", "xyz">>, "application/octet-stream")
NoDot   == File(<<"README">>, "")
PdfImg  == File(<<"x", "pdf">>, "image/png")
Bmp     == File(<<"b", "bmp">>, "")
Webp    == File(<<"w", "webp">>, "image/webp")
Doc     == File(<<"d", "doc">>, "application/msword")
Odt     == File(<<"d", "odt">>, "")
Xls     == File(<<"s", "xls">>, "application/vnd.ms-excel")
Ods     == File(<<"s", "ods">>, "")
Ppt     == File(<<"k", "ppt">>, "")
Odp     == File(<<"k", "odp">>, "")
TextLog == File(<<"l", "log">>, "text/x-log")
Huge    == [name |-> <<"huge", "pdf">>, type |-> "application/pdf", big |-> TRUE]

Files == {Pdf, PdfNoExt, Png, PngUp, Jpg, Jpeg, Gif, ImgTxt, Docx, Rtf, Xlsx, Csv,
          Pptx, Txt, Md, MdPlain, Json, Unknown, NoDot,
          PdfImg, Bmp, Webp, Doc, Odt, Xls, Ods, Ppt, Odp, TextLog}

Targets == <<"pdf", "png", "jpg", "txt", "csv", "docx">>
TargetSet == {Targets[i] : i \in 1..Len(Targets)}
Fidelities == {"fast", "balanced", "best", Undefined}

\* String.prototype.toLowerCase / toUpperCase on the segments the model uses.
toLowerCase(s) ==
    CASE s = "PNG" -> "png"
      [] s = "README" -> "readme"
      [] OTHER -> s

toUpperCase(s) ==
    CASE s = "pdf" -> "PDF"   [] s = "png" -> "PNG"   [] s = "jpg" -> "JPG"
      [] s = "jpeg" -> "JPEG" [] s = "gif" -> "GIF"   [] s = "txt" -> "TXT"
      [] s = "docx" -> "DOCX" [] s = "rtf" -> "RTF"   [] s = "xlsx" -> "XLSX"
      [] s = "csv" -> "CSV"   [] s = "pptx" -> "PPTX" [] s = "md" -> "MD"
      [] s = "json" -> "JSON" [] s = "xyz" -> "XYZ"   [] s = "readme" -> "README"
      [] s = "bmp" -> "BMP"   [] s = "webp" -> "WEBP" [] s = "doc" -> "DOC"
      [] s = "odt" -> "ODT"   [] s = "xls" -> "XLS"   [] s = "ods" -> "ODS"
      [] s = "ppt" -> "PPT"   [] s = "odp" -> "ODP"   [] s = "log" -> "LOG"
      [] OTHER -> s

startsWith(s, p) == Len(s) >= Len(p) /\ SubSeq(s, 1, Len(p)) = p

SeqToSet(s) == {s[i] : i \in 1..Len(s)}

----------------------------------------------------------------------------
(* File type detection: getFileTypeInfo *)

\* file.name.split('.').pop()?.toLowerCase() || ''
extensionOf(file) ==
    IF file.name = <<>> THEN "" ELSE toLowerCase(file.name[Len(file.name)])

\* getFileTypeInfo with the text rule tried before the spreadsheet rule
getFileTypeInfo_TextFirst(file) ==
    LET extension == extensionOf(file)
        mimeType == file.type
        info(c) == [category |-> c, extension |-> extension, mimeType |-> mimeType]
    IN  IF mimeType = "application/pdf" \/ extension = "pdf" THEN info("pdf")
        ELSE IF startsWith(mimeType, "image/")
                \/ extension \in {"png", "jpg", "jpeg", "gif", "bmp", "webp"} THEN info("image")
        ELSE IF extension \in {"txt", "md", "json"} \/ startsWith(mimeType, "text/") THEN info("text")
        ELSE IF extension \in {"docx", "doc", "rtf", "odt"} THEN info("document")
        ELSE IF extension \in {"xlsx", "xls", "csv", "ods"} THEN info("spreadsheet")
        ELSE IF extension \in {"pptx", "ppt", "odp"} THEN info("presentation")
        ELSE info("unknown")

getFileTypeInfo(file) ==
    LET extension == extensionOf(file)
        mimeType == file.type
        info(c) == [category |-> c, extension |-> extension, mimeType |-> mimeType]
    IN  IF mimeType = "application/pdf" \/ extension = "pdf" THEN info("pdf")
        ELSE IF startsWith(mimeType, "image/")
                \/ extension \in {"png", "jpg", "jpeg", "gif", "bmp", "webp"} THEN info("image")
        ELSE IF extension \in {"docx", "doc", "rtf", "odt"} THEN info("document")
        ELSE IF extension \in {"xlsx", "xls", "csv", "ods"} THEN info("spreadsheet")
        ELSE IF extension \in {"pptx", "ppt", "odp"} THEN info("presentation")
        ELSE IF extension \in {"txt", "md", "json"} \/ startsWith(mimeType, "text/") THEN info("text")
        ELSE info("unknown")

----------------------------------------------------------------------------
(* Conversion compatibility matrix: getValidTargetFormats *)

\* a descriptor that never announces a ZIP
Descriptor_NeverZip(format, label, description, willZip, warning) ==
    [format |-> format, label |-> label, description |-> description,
     willZip |-> FALSE, warning |-> warning]

Descriptor(format, label, description, willZip, warning) ==
    [format |-> format, label |-> label, description |-> description,
     willZip |-> willZip, warning |-> warning]

\* the matrix with PDF offered to every batch and DOCX pushed before CSV
getValidTargetFormats_Loose(fileTypes) ==
    LET categories == {fileTypes[i].category : i \in 1..Len(fileTypes)}
        somePdf == \E i \in 1..Len(fileTypes) : fileTypes[i].category = "pdf"
        pdfPart == <<Descriptor("pdf", "PDF", "Universal document format", FALSE, Undefined)>>
        imgWarning == IF somePdf THEN "PDFs will create one image per page" ELSE Undefined
        imgPart ==
            IF \A cat \in categories : cat \in {"image", "pdf"}
            THEN <<Descriptor("png", "PNG", "High-quality images", somePdf, imgWarning),
                   Descriptor("jpg", "JPG", "Compressed images", somePdf, imgWarning)>>
            ELSE <<>>
        txtPart ==
            IF \A cat \in categories : cat \in {"document", "pdf", "text", "spreadsheet"}
            THEN <<Descriptor("txt", "TXT", "Plain text extraction", FALSE, Undefined)>>
            ELSE <<>>
        csvPart ==
            IF \A cat \in categories : cat \in {"spreadsheet", "text"}
            THEN <<Descriptor("csv", "CSV", "Comma-separated values",
                              \E i \in 1..Len(fileTypes) :
                                  fileTypes[i].extension \in {"xlsx", "xls"},
                              Undefined)>>
            ELSE <<>>
        docxPart ==
            IF \A cat \in categories : cat \in {"text", "pdf"}
            THEN <<Descriptor("docx", "DOCX", "Word document", FALSE,
                              IF somePdf THEN "PDF to DOCX may alter layout (beta feature)"
                              ELSE Undefined)>>
            ELSE <<>>
    IN  IF Len(fileTypes) = 0 THEN <<>>
        ELSE pdfPart \o imgPart \o txtPart \o docxPart \o csvPart

getValidTargetFormats(fileTypes) ==
    LET categories == {fileTypes[i].category : i \in 1..Len(fileTypes)}
        somePdf == \E i \in 1..Len(fileTypes) : fileTypes[i].category = "pdf"
        pdfPart ==
            IF "unknown" \notin categories
            THEN <<Descriptor("pdf", "PDF", "Universal document format", FALSE, Undefined)>>
            ELSE <<>>
        imgWarning == IF somePdf THEN "PDFs will create one image per page" ELSE Undefined
        imgPart ==
            IF \A cat \in categories : cat \in {"image", "pdf"}
            THEN <<Descriptor("png", "PNG", "High-quality images", somePdf, imgWarning),
                   Descriptor("jpg", "JPG", "Compressed images", somePdf, imgWarning)>>
            ELSE <<>>
        txtPart ==
            IF \A cat \in categories : cat \in {"document", "pdf", "text", "spreadsheet"}
            THEN <<Descriptor("txt", "TXT", "Plain text extraction", FALSE, Undefined)>>
            ELSE <<>>
        csvPart ==
            IF \A cat \in categories : cat \in {"spreadsheet", "text"}
            THEN <<Descriptor("csv", "CSV", "Comma-separated values",
                              \E i \in 1..Len(fileTypes) :
                                  fileTypes[i].extension \in {"xlsx", "xls"},
                              Undefined)>>
            ELSE <<>>
        docxPart ==
            IF \A cat \in categories : cat \in {"text", "pdf"}
            THEN <<Descriptor("docx", "DOCX", "Word document", FALSE,
                              IF somePdf THEN "PDF to DOCX may alter layout (beta feature)"
                              ELSE Undefined)>>
            ELSE <<>>
    IN  IF Len(fileTypes) = 0 THEN <<>>
        ELSE pdfPart \o imgPart \o txtPart \o csvPart \o docxPart

formatsOf(descriptors) == [i \in 1..Len(descriptors) |-> descriptors[i].format]

----------------------------------------------------------------------------
(* The oracle: getConversionError.  null is Undefined. *)

\* the table with document -> pdf flagged as impossible
impossibleConversions_FlagsPdf(category) ==
    CASE category = "text" -> {"png", "jpg"}
      [] category = "image" -> {"docx", "csv", "xlsx"}
      [] category = "document" -> {"pdf"}
      [] category = "unknown" -> {"pdf", "png", "jpg", "txt", "csv", "docx"}
      [] OTHER -> {}

\* the table without image -> xlsx
impossibleConversions_NoXlsx(category) ==
    CASE category = "text" -> {"png", "jpg"}
      [] category = "image" -> {"docx", "csv"}
      [] category = "unknown" -> {"pdf", "png", "jpg", "txt", "csv", "docx"}
      [] OTHER -> {}

impossibleConversions(category) ==
    CASE category = "text" -> {"png", "jpg"}
      [] category = "image" -> {"docx", "csv", "xlsx"}
      [] category = "unknown" -> {"pdf", "png", "jpg", "txt", "csv", "docx"}
      [] OTHER -> {}

getConversionError(fileType, target) ==
    LET category == fileType.category
        EXT == toUpperCase(fileType.extension)
    IN  IF target \in impossibleConversions(category)
        THEN IF category = "text" /\ target \in {"png", "jpg"}
             THEN EXT \o " -> " \o toUpperCase(target)
                      \o " isn't supported. Choose PDF to wrap text as pages."
             ELSE IF category = "image" /\ target = "docx"
             THEN EXT \o " -> DOCX isn't supported. Try PDF for image documents."
             ELSE IF category = "image" /\ target = "csv"
             THEN EXT \o " -> CSV isn't supported. Images don't contain tabular data."
             ELSE EXT \o " -> " \o toUpperCase(target) \o " conversion is not supported."
        ELSE Undefined

----------------------------------------------------------------------------
(* The conversion engine: convertFile and its converters, as a coroutine.   *)
(* A call record holds the position (pc) of one convertFile call; `aw` says *)
(* the call is suspended at an `await` of an external promise (file read,   *)
(* library call, image load), where the event loop may run other handlers.  *)
(* A step runs the code up to the next onProgress call, the next await or   *)
(* the end of the call, and yields [c: the call after, out: the value given *)
(* to onProgress, or NoP].  What a library call or the content of the file  *)
(* decides (parse failure, page count, text length) is a choice.            *)

NoP == P(0 - 1)
MinTextLength == 50      \* extractedText.trim().length < 50
PageLens == {0, 5, MinTextLength - 1, MinTextLength}   \* lengths of a page's trimmed text
OcrProgressSteps == 2    \* m.progress takes the values k/OcrProgressSteps

(* JSON values, as JSON.parse returns them. A primitive is a record of its  *)
(* type and value; an element of an array is a primitive, an object or an   *)
(* array, given by its keys (the indices, for an array) and their values.   *)

MaxRows == 2         \* elements of a JSON array

Prim(kind, n, s, b) == [kind |-> kind, n |-> n, s |-> s, b |-> b]
Num(n)  == Prim("number", n, "", FALSE)
Str(s)  == Prim("string", 0, s, FALSE)
Bool(b) == Prim("boolean", 0, "", b)
Null    == Prim("null", 0, "", FALSE)
undefined == Prim("undefined", 0, "", FALSE)

Elem(kind, n, s, b, keys, vals) ==
    [kind |-> kind, n |-> n, s |-> s, b |-> b, keys |-> keys, vals |-> vals]
Obj(keys, vals) == Elem("object", 0, "", FALSE, keys, vals)
Arr(items) == Elem("array", 0, "", FALSE, [i \in 1..Len(items) |-> ToString(i - 1)], items)
Of(prim) == Elem(prim.kind, prim.n, prim.s, prim.b, <<>>, <<>>)

Parsed(kind, items) == [kind |-> kind, items |-> items]
NoJson == Parsed("none", <<>>)

CellValues == {Num(0), Num(7), Str(""), Str("x"), Bool(TRUE), Bool(FALSE), Null}
FewCellValues == {Num(7), Bool(FALSE), Null}
Objects ==
    {Obj(<<>>, <<>>), Obj(<<"b">>, <<Num(7)>>)}
    \cup {Obj(<<"a">>, <<v>>) : v \in CellValues}
    \cup {Obj(<<"a", "b">>, <<v, w>>) : v, w \in FewCellValues}
Elements ==
    Objects \cup {Of(Num(7)), Of(Str("x")), Of(Null), Arr(<<Num(1), Num(2)>>)}

\* what JSON.parse(text) returns; "invalid" stands for a SyntaxError
JsonInputs ==
    {Parsed("invalid", <<>>), Parsed("number", <<>>), Parsed("string", <<>>), Parsed("null", <<>>)}
    \cup {Parsed("object", <<o>>) : o \in Objects}
    \cup {Parsed("array", items) : items \in UNION {[1..k -> Elements] : k \in 0..MaxRows}}

\* the operator typeof
typeof(v) == CASE v.kind \in {"object", "array", "null"} -> "object"
               [] OTHER -> v.kind

\* row[header]
property(row, header) ==
    LET hits == {i \in 1..Len(row.keys) : row.keys[i] = header} IN
    IF hits # {} THEN row.vals[CHOOSE i \in hits : TRUE]
    ELSE IF row.kind = "string" /\ \E i \in 1..Len(row.s) : ToString(i - 1) = header
    THEN LET i == CHOOSE i \in 1..Len(row.s) : ToString(i - 1) = header
         IN  Str(SubSeq(row.s, i, i))
    ELSE undefined

falsy(v) ==
    \/ v.kind \in {"undefined", "null"}
    \/ v.kind = "number" /\ v.n = 0
    \/ v.kind = "string" /\ v.s = ""
    \/ v.kind = "boolean" /\ ~v.b

\* JSON.stringify of a primitive (strings without characters to escape)
stringify(v) ==
    CASE v.kind = "number" -> ToString(v.n)
      [] v.kind = "string" -> "\"" \o v.s \o "\""
      [] v.kind = "boolean" -> IF v.b THEN "true" ELSE "false"
      [] v.kind = "null" -> "null"

RECURSIVE join(_, _)
join(strings, separator) ==
    IF strings = <<>> THEN ""
    ELSE IF Len(strings) = 1 THEN strings[1]
    ELSE strings[1] \o separator \o join(Tail(strings), separator)

\* headers.map(header => JSON.stringify(row[header] || '')).join(',')
csvRow(headers, row) ==
    join([h \in 1..Len(headers) |->
             LET v == property(row, headers[h]) IN
             stringify(IF falsy(v) THEN Str("") ELSE v)], ",")

\* the try block of the JSON branch (841-858): the lines of the CSV, or the fact that
\* it threw (a TypeError on null, or its own Error)
jsonToCsv(data) ==
    IF data.kind = "array" /\ Len(data.items) > 0 /\ typeof(data.items[1]) = "object"
    THEN LET first == data.items[1]
             headers == first.keys
             rowThrows(row) == row.kind = "null" /\ headers # <<>>
         IN  IF first.kind = "null" \/ \E i \in 1..Len(data.items) : rowThrows(data.items[i])
             THEN [threw |-> TRUE, csvRows |-> <<>>]
             ELSE [threw |-> FALSE,
                   csvRows |-> <<join(headers, ",")>>
                               \o [i \in 1..Len(data.items) |-> csvRow(headers, data.items[i])]]
    ELSE [threw |-> TRUE, csvRows |-> <<>>]

NewCall(file, target, fid) ==
    [file |-> file, target |-> target, fid |-> fid, pc |-> "cf_start", aw |-> FALSE,
     ret |-> "run", err |-> Undefined, blob |-> NoBlob,
     sub |-> "", pn |-> 0, tp |-> 0, nlen |-> 0, ocr |-> 0, text |-> "",
     raw |-> 0, threw |-> FALSE, ocrRan |-> FALSE, ocrText |-> "", ocrFailed |-> FALSE,
     json |-> NoJson, csvRows |-> <<>>]
IdleCall == [NewCall(NoFile, "", Undefined) EXCEPT !.pc = "idle", !.ret = "idle"]

Go(c, pc, aw, v) == [c |-> [c EXCEPT !.pc = pc, !.aw = aw], out |-> v]
Return(c, blob, v) ==
    [c |-> [c EXCEPT !.pc = "done", !.aw = FALSE, !.ret = "ok", !.blob = blob], out |-> v]
Throw(c, msg) ==
    [c |-> [c EXCEPT !.pc = "done", !.aw = FALSE, !.ret = "err", !.err = msg], out |-> NoP]
\* the catch of convertFile (367-371) around the dispatch
ThrowInConverter(c, msg) == Throw(c, "Conversion failed: " \o msg)

SameFile(c) == Blob(c.file, c.file.type, TRUE)
NewBlob(c, type) == Blob(c.file, type, FALSE)
categoryOf(c) == getFileTypeInfo(c.file).category
fidelityOf(c) == IF c.fid = Undefined THEN "balanced" ELSE c.fid

\* the first progress value of the converter the switch (347-366) dispatches to
dispatchEntry(c) ==
    CASE c.target = "pdf" -> "pdf_entry"
      [] c.target \in {"png", "jpg"} -> "img_entry"
      [] c.target = "txt" -> "txt_entry"
      [] c.target = "csv" -> "csv_entry"
      [] c.target = "docx" -> "docx_entry"
      [] OTHER -> "cf_default"

alreadyInTargetFormat(c) ==
    LET info == getFileTypeInfo(c.file) IN
    \/ c.target = "pdf" /\ info.category = "pdf"
    \/ c.target \in {"png", "jpg"} /\ info.category = "image" /\ info.extension = c.target
    \/ c.target = "txt" /\ info.category = "text" /\ info.extension = "txt"

\* convertFile with the Oracle consulted inside the try block, so that its message
\* comes back wrapped by the catch
convertFile_ValidateInTry(c) ==
    CASE c.pc = "cf_start" -> {Go(c, "cf_check", FALSE, P(10))}
      [] c.pc = "cf_check" ->
            LET conversionError == getConversionError(getFileTypeInfo(c.file), c.target) IN
            IF conversionError # Undefined THEN {ThrowInConverter(c, conversionError)}
            ELSE IF alreadyInTargetFormat(c) THEN {Return(c, SameFile(c), P(100))}
            ELSE {Go(c, dispatchEntry(c), FALSE, P(25))}
      [] c.pc = "cf_default" ->
            {ThrowInConverter(c, "Unsupported target format: " \o c.target)}

\* convertFile without the already-in-target-format returns
convertFile_NoShortCircuit(c) ==
    CASE c.pc = "cf_start" -> {Go(c, "cf_check", FALSE, P(10))}
      [] c.pc = "cf_check" ->
            LET conversionError == getConversionError(getFileTypeInfo(c.file), c.target) IN
            IF conversionError # Undefined THEN {Throw(c, conversionError)}
            ELSE {Go(c, dispatchEntry(c), FALSE, P(25))}
      [] c.pc = "cf_default" ->
            {ThrowInConverter(c, "Unsupported target format: " \o c.target)}

convertFile(c) ==
    CASE c.pc = "cf_start" -> {Go(c, "cf_check", FALSE, P(10))}
      [] c.pc = "cf_check" ->
            LET conversionError == getConversionError(getFileTypeInfo(c.file), c.target) IN
            IF conversionError # Undefined THEN {Throw(c, conversionError)}
            ELSE IF alreadyInTargetFormat(c) THEN {Return(c, SameFile(c), P(100))}
            ELSE {Go(c, dispatchEntry(c), FALSE, P(25))}
      [] c.pc = "cf_default" ->
            {ThrowInConverter(c, "Unsupported target format: " \o c.target)}

convertToPDF(c) ==
    CASE c.pc = "pdf_entry" ->
            IF categoryOf(c) = "pdf" THEN {Go(c, "pdf_same", FALSE, P(30))}
            ELSE {Go(c, "pdf_create", TRUE, P(30))}
      [] c.pc = "pdf_same" -> {Return(c, SameFile(c), P(100))}
      [] c.pc = "pdf_create" ->
            LET category == categoryOf(c) IN
            IF category = "image" THEN {Go(c, "imgpdf_read", TRUE, P(40))}
            ELSE IF category = "document" THEN {Go(c, "docpdf_read", TRUE, P(40))}
            ELSE IF category = "spreadsheet" THEN {Go(c, "xlspdf_read", TRUE, P(40))}
            ELSE IF category = "text" THEN {Go(c, "txtpdf_read", TRUE, P(40))}
            ELSE IF category = "presentation" THEN {Go(c, "ppt_60", FALSE, P(40))}
            ELSE {Go(c, "pdf_unsupported", FALSE, P(40))}
      [] c.pc = "pdf_unsupported" ->
            {ThrowInConverter(c, "Unsupported file type for PDF conversion: "
                                  \o getFileTypeInfo(c.file).extension)}
      \* the common tail of the five converters: onProgress(90); save; onProgress(100)
      [] c.pc = "pdf_90" -> {Go(c, "pdf_save", TRUE, P(90))}
      [] c.pc = "pdf_save" -> {Return(c, NewBlob(c, "application/pdf"), P(100))}

convertImageToPDF(c) ==
    CASE c.pc = "imgpdf_read" -> {Go(c, "imgpdf_embed", TRUE, P(60))}
      [] c.pc = "imgpdf_embed" ->
            {ThrowInConverter(c, "<pdf-lib embed error>"), Go(c, "pdf_90", FALSE, P(80))}

convertDocxToPDF(c) ==
    CASE c.pc = "docpdf_read" -> {Go(c, "docpdf_extract", TRUE, P(50))}
      [] c.pc = "docpdf_extract" ->
            {ThrowInConverter(c, "<mammoth error>"), Go(c, "pdf_90", FALSE, P(70))}

convertExcelToPDF(c) ==
    CASE c.pc = "xlspdf_read" -> {Go(c, "xlspdf_parse", FALSE, P(50))}
      [] c.pc = "xlspdf_parse" ->
            {ThrowInConverter(c, "<xlsx error>"), Go(c, "pdf_90", FALSE, P(70))}

(* The loop of convertTextToPDF (583-607) and of convertDocxToPDF (482-508) that *)
(* draws the wrapped lines.  Lengths are in hundredths of a point; the page of  *)
(* pdfDoc.addPage() has the default size of pdf-lib, A4 (595.28 x 841.89).      *)
MaxLines == 110      \* lines of a wrapped text
PageSize == [width |-> 59528, height |-> 84189]
fontSize == 1200
margin == 5000
lineHeight == (fontSize * 12) \div 10

\* `first` is the page bound to `page` before the loop, `pages` the pages of pdfDoc
NoLayout == [pc |-> "idle", lines |-> 0, first |-> 0, pages |-> 0, yPosition |-> 0,
             drawn |-> <<>>]

\* the loop from line k on: each line is drawn with page.drawText
RECURSIVE drawLines(_, _)
drawLines(l, k) ==
    IF k > l.lines THEN l
    ELSE LET turned == IF l.yPosition < margin
                       THEN [l EXCEPT !.pages = @ + 1, !.yPosition = PageSize.height - margin]
                       ELSE l
         IN  drawLines([turned EXCEPT
                           !.drawn = Append(@, [page |-> turned.first, line |-> k,
                                                y |-> turned.yPosition]),
                           !.yPosition = @ - lineHeight],
                       k + 1)

\* from `const page = pdfDoc.addPage()` to the end of the loop, for a text that
\* wrapText cut into `lines` lines
layOut(lines) ==
    [drawLines([pc |-> "loop", lines |-> lines, first |-> 1, pages |-> 1,
                yPosition |-> PageSize.height - margin, drawn |-> <<>>], 1)
     EXCEPT !.pc = "done"]

convertTextToPDF(c) ==
    CASE c.pc = "txtpdf_read" -> {Go(c, "pdf_90", FALSE, P(60))}

convertPresentationToPDF(c) ==
    CASE c.pc = "ppt_60" -> {Go(c, "pdf_90", FALSE, P(60))}

convertToImage(c) ==
    CASE c.pc = "img_entry" -> {Go(c, "img_load", TRUE, P(40))}
      [] c.pc = "img_load" ->
            {ThrowInConverter(c, "Failed to load image"), Go(c, "img_80", FALSE, P(60))}
      [] c.pc = "img_80" -> {Go(c, "img_encode", TRUE, P(80))}
      [] c.pc = "img_encode" ->
            {ThrowInConverter(c, "Failed to convert image"),
             Return(c, NewBlob(c, IF c.target = "jpg" THEN "image/jpeg" ELSE "image/png"),
                    P(100))}

\* what follows `await extractTextFromPDF(...)` in its two callers (753-757, 886-887)
afterExtract(c, text) ==
    IF c.sub = "txt"
    THEN Return([c EXCEPT !.text = text], NewBlob(c, "text/plain"), P(100))
    ELSE Go([c EXCEPT !.text = text], "docx_90", FALSE, P(70))

OcrPlaceholder ==
    "OCR text extraction failed. This may be a scanned document that requires manual processing."

\* `\n--- Page ${pageNum} ---\n${pageText}\n` around a page text of a PDF of several
\* pages (page numbers of one digit)
PageMarkerLength == 17

\* extractedText.trim().length, from the untrimmed length nlen: the text of a PDF of
\* several pages starts and ends with a line feed
trimmedLength(c) == IF c.tp > 1 /\ c.nlen > 0 THEN c.nlen - 2 ELSE c.nlen

\* the text extractTextWithOCR returns goes through the return of its caller:
\* `extractedText.trim() || 'No readable text found in this PDF.'` (1099) in the try
\* block, `return await extractTextWithOCR(...)` (1108) in the catch block
ocrReturn(c, text) ==
    afterExtract([c EXCEPT !.ocrText = text],
                 IF text = "" /\ ~c.threw THEN "No readable text found in this PDF."
                 ELSE text)

\* extractTextWithOCR letting the error of the OCR run out: the try path of
\* extractTextFromPDF goes to its catch block and runs OCR again, its catch path
\* throws (1109-1111)
extractTextWithOCR_Rethrows(c) ==
    LET failed == [c EXCEPT !.ocrFailed = TRUE]
        rethrow == IF c.threw
                   THEN ThrowInConverter(failed,
                            "Failed to extract text from PDF. The file may be corrupted or password-protected.")
                   ELSE Go([failed EXCEPT !.threw = TRUE], "ex_catch", FALSE, NoP)
    IN
    CASE c.pc = "ocr_create" -> {rethrow, Go(c, "ocr_rec", TRUE, P(85))}
      [] c.pc = "ocr_rec" ->
            {rethrow}
            \cup {Go([c EXCEPT !.text = t], "ocr_done", FALSE, P(98)) : t \in {"", "<ocr text>"}}
            \cup {Go([c EXCEPT !.ocr = @ + 1], "ocr_rec", TRUE,
                     [n |-> 80 * OcrProgressSteps + k * 15, d |-> OcrProgressSteps]) :
                  k \in IF c.ocr < MaxOcrReports THEN 0..OcrProgressSteps ELSE {}}
      [] c.pc = "ocr_done" -> {ocrReturn(c, c.text)}

\* ocrFailed says that the OCR run threw inside extractTextWithOCR
extractTextWithOCR(c) ==
    CASE c.pc = "ocr_create" ->
            {ocrReturn([c EXCEPT !.ocrFailed = TRUE], OcrPlaceholder),
             Go(c, "ocr_rec", TRUE, P(85))}
      [] c.pc = "ocr_rec" ->
            {ocrReturn([c EXCEPT !.ocrFailed = TRUE], OcrPlaceholder)}
            \cup {Go([c EXCEPT !.text = t], "ocr_done", FALSE, P(98)) : t \in {"", "<ocr text>"}}
            \cup {Go([c EXCEPT !.ocr = @ + 1], "ocr_rec", TRUE,
                     [n |-> 80 * OcrProgressSteps + k * 15, d |-> OcrProgressSteps]) :
                  k \in IF c.ocr < MaxOcrReports THEN 0..OcrProgressSteps ELSE {}}
      [] c.pc = "ocr_done" -> {ocrReturn(c, c.text)}

extractTextFromPDF(c) ==
    CASE c.pc = "ex_read" -> {Go(c, "ex_load", TRUE, P(20))}
      [] c.pc = "ex_load" ->
            {Go([c EXCEPT !.threw = TRUE], "ex_catch", FALSE, NoP)}
            \cup {Go([c EXCEPT !.tp = totalPages, !.pn = 1], "ex_page", TRUE, P(30)) :
                  totalPages \in 1..MaxPages}
      [] c.pc = "ex_page" ->
            {Go([c EXCEPT !.threw = TRUE], "ex_catch", FALSE, NoP)}
            \cup {LET v == [n |-> 30 * c.tp + c.pn * 40, d |-> c.tp]
                      added == IF len = 0 THEN 0
                               ELSE IF c.tp > 1 THEN PageMarkerLength + len ELSE len
                      d == [c EXCEPT !.nlen = @ + added, !.raw = @ + len]
                  IN  IF c.pn < c.tp THEN Go([d EXCEPT !.pn = @ + 1], "ex_page", TRUE, v)
                      ELSE Go(d, "ex_after", FALSE, v) :
                  len \in PageLens}
      [] c.pc = "ex_after" ->
            IF trimmedLength(c) < MinTextLength /\ fidelityOf(c) # "fast"
            THEN {Go([c EXCEPT !.ocrRan = TRUE], "ocr_create", TRUE, P(75))}
            ELSE {afterExtract(c, IF trimmedLength(c) = 0
                                  THEN "No readable text found in this PDF."
                                  ELSE "<native text>")}
      [] c.pc = "ex_catch" ->
            IF c.fid # "fast" THEN {Go([c EXCEPT !.ocrRan = TRUE], "ocr_create", TRUE, P(40))}
            ELSE {ThrowInConverter(c,
                    "Failed to extract text from PDF. Try using \"Balanced\" or \"Best\" fidelity for OCR fallback.")}

convertToText(c) ==
    LET fileExtension == extensionOf(c.file) IN
    CASE c.pc = "txt_entry" -> {Go(c, "txt_switch", FALSE, P(10))}
      [] c.pc = "txt_switch" ->
            IF fileExtension = "txt" \/ c.file.type = "text/plain"
            THEN {Return(c, SameFile(c), P(100))}
            ELSE IF fileExtension = "pdf"
            THEN {Go([c EXCEPT !.sub = "txt"], "ex_read", TRUE, P(10))}
            ELSE IF fileExtension \in {"docx", "doc"} THEN {Go(c, "doctxt_read", TRUE, NoP)}
            ELSE IF fileExtension \in {"xlsx", "xls"} THEN {Go(c, "xlstxt_read", TRUE, NoP)}
            ELSE {ThrowInConverter(c, "Unsupported file type for text conversion: "
                                       \o fileExtension)}
      [] c.pc = "doctxt_read" -> {Go(c, "doctxt_extract", TRUE, P(50))}
      [] c.pc = "doctxt_extract" ->
            {ThrowInConverter(c, "<mammoth error>"), Go(c, "txt_100", FALSE, P(95))}
      [] c.pc = "xlstxt_read" -> {Go(c, "xlstxt_parse", FALSE, P(50))}
      [] c.pc = "xlstxt_parse" ->
            {ThrowInConverter(c, "<xlsx error>"), Go(c, "txt_100", FALSE, P(95))}
      [] c.pc = "txt_100" -> {Return(c, NewBlob(c, "text/plain"), P(100))}

convertToCSV(c) ==
    LET info == getFileTypeInfo(c.file) IN
    CASE c.pc = "csv_entry" -> {Go(c, "csv_switch", FALSE, P(30))}
      [] c.pc = "csv_switch" ->
            IF info.extension = "csv" THEN {Return(c, SameFile(c), P(100))}
            ELSE IF info.category = "spreadsheet" THEN {Go(c, "xlscsv_read", TRUE, NoP)}
            ELSE IF info.extension = "json" THEN {Go(c, "json_read", TRUE, NoP)}
            ELSE {ThrowInConverter(c, "Unsupported file type for CSV conversion: "
                                       \o info.extension)}
      [] c.pc = "xlscsv_read" -> {Go(c, "xlscsv_parse", FALSE, P(60))}
      [] c.pc = "xlscsv_parse" ->
            {ThrowInConverter(c, "<xlsx error>"), Go(c, "csv_100", FALSE, P(90))}
      [] c.pc = "json_read" -> {Go(c, "json_parse", FALSE, P(60))}
      [] c.pc = "json_parse" ->
            {LET r == IF data.kind = "invalid" THEN [threw |-> TRUE, csvRows |-> <<>>]
                      ELSE jsonToCsv(data)
                 d == [c EXCEPT !.json = data, !.csvRows = r.csvRows]
             IN  IF r.threw
                 THEN ThrowInConverter(d, "Invalid JSON format for CSV conversion")
                 ELSE Go(d, "csv_100", FALSE, P(90)) :
             data \in JsonInputs}
      [] c.pc = "csv_100" -> {Return(c, NewBlob(c, "text/csv"), P(100))}

convertToDocx(c) ==
    LET info == getFileTypeInfo(c.file) IN
    CASE c.pc = "docx_entry" -> {Go(c, "docx_switch", FALSE, P(30))}
      [] c.pc = "docx_switch" ->
            IF info.extension = "pdf"
            THEN {Go([c EXCEPT !.sub = "docx"], "ex_read", TRUE, P(10))}
            ELSE IF info.category = "text" THEN {Go(c, "txtdocx_read", TRUE, NoP)}
            ELSE {ThrowInConverter(c, "DOCX conversion not supported for "
                                       \o info.extension \o " files")}
      [] c.pc = "txtdocx_read" -> {Go(c, "docx_90", FALSE, P(60))}
      [] c.pc = "docx_90" -> {Go(c, "docx_zip", TRUE, P(90))}
      [] c.pc = "docx_zip" -> {Return(c, NewBlob(c, "application/zip"), P(100))}

\* one step of a convertFile call, whichever function it is in
convertFileStep(c) ==
    CASE c.pc \in {"cf_start", "cf_check", "cf_default"} -> convertFile(c)
      [] c.pc \in {"pdf_entry", "pdf_same", "pdf_create", "pdf_unsupported",
                   "pdf_90", "pdf_save"} -> convertToPDF(c)
      [] c.pc \in {"imgpdf_read", "imgpdf_embed"} -> convertImageToPDF(c)
      [] c.pc \in {"docpdf_read", "docpdf_extract"} -> convertDocxToPDF(c)
      [] c.pc \in {"xlspdf_read", "xlspdf_parse"} -> convertExcelToPDF(c)
      [] c.pc = "txtpdf_read" -> convertTextToPDF(c)
      [] c.pc = "ppt_60" -> convertPresentationToPDF(c)
      [] c.pc \in {"img_entry", "img_load", "img_80", "img_encode"} -> convertToImage(c)
      [] c.pc \in {"txt_entry", "txt_switch", "doctxt_read", "doctxt_extract",
                   "xlstxt_read", "xlstxt_parse", "txt_100"} -> convertToText(c)
      [] c.pc \in {"csv_entry", "csv_switch", "xlscsv_read", "xlscsv_parse",
                   "json_read", "json_parse", "csv_100"} -> convertToCSV(c)
      [] c.pc \in {"docx_entry", "docx_switch", "txtdocx_read", "docx_90", "docx_zip"}
            -> convertToDocx(c)
      [] c.pc \in {"ex_read", "ex_load", "ex_page", "ex_after", "ex_catch"}
            -> extractTextFromPDF(c)
      [] c.pc \in {"ocr_create", "ocr_rec", "ocr_done"} -> extractTextWithOCR(c)
      [] OTHER -> {}

----------------------------------------------------------------------------
(* The conversion queue: BulkConverterPage (FileUpload.tsx 178-820).        *)
(* JavaScript runs one handler or continuation at a time: `running` names   *)
(* the coroutine that holds the thread; user events and resumptions of      *)
(* suspended calls happen only when it is "none".  Each step below is one   *)
(* setQueue update, so that every change of an item's status is a step.     *)

MAX_FILES == 100
TARGET_PREFERENCE == <<"pdf", "png", "jpg", "csv", "txt", "docx">>

QueueFiles == {Png, Txt, Unknown}
Drops == UNION {[1..k -> QueueFiles \cup {Huge}] : k \in 1..MaxDrop}

Toast(by, kind, text) == [by |-> by, kind |-> kind, text |-> text]
NoToast == Toast("", "", "")

NobodyRuns == [kind |-> "none", k |-> 0]
BatchRuns == [kind |-> "batch", k |-> 0]
RetryRuns(k) == [kind |-> "retry", k |-> k]

NoBatch ==
    [op |-> "none", items |-> <<>>, targets |-> <<>>, fid |-> Undefined, idx |-> 0,
     pc |-> "none", call |-> IdleCall, total |-> 0, snapCompleted |-> 0, snapFailed |-> 0]

MaxAdded == 120      \* files ever added by large drops
LargeDrop == 5       \* files of a large drop
DropSizes == {LargeDrop, MAX_FILES, MAX_FILES + 1}

\* handleDrop and handleFileSelect are useCallback(..., []) (403-415): the
\* addFilesToQueue they call is the one of the first render, whose `queue` is []
\* and whose `targetFormat` is 'pdf'.
staleQueue == <<>>
staleTargetFormat == "pdf"

NewItem(id, file) ==
    [id |-> id, file |-> file, filename |-> file.name,
     type |-> IF file.type = "" THEN "application/octet-stream" ELSE file.type,
     status |-> "queued", progress |-> P(0), error |-> Undefined, convertedBlob |-> NoBlob]

\* setQueue(prev => prev.map(q => q.id === id ? change(q) : q))
mapItem(q, id, Change(_)) == [i \in 1..Len(q) |-> IF q[i].id = id THEN Change(q[i]) ELSE q[i]]

setConverting(q, id) ==
    LET ch(it) == [it EXCEPT !.status = "converting", !.progress = P(0), !.error = Undefined]
    IN  mapItem(q, id, ch)
setProgress(q, id, v) ==
    LET ch(it) == [it EXCEPT !.progress = v] IN mapItem(q, id, ch)
\* the update putting back an item that has left the queue
setCompleted_Reinsert(q, id, blob) ==
    LET ch(it) == [it EXCEPT !.status = "completed", !.progress = P(100), !.convertedBlob = blob]
    IN  IF \E i \in 1..Len(q) : q[i].id = id THEN mapItem(q, id, ch)
        ELSE Append(q, ch(NewItem(id, blob.file)))
setCompleted(q, id, blob) ==
    LET ch(it) == [it EXCEPT !.status = "completed", !.progress = P(100), !.convertedBlob = blob]
    IN  mapItem(q, id, ch)
setFailed(q, id, message) ==
    LET ch(it) == [it EXCEPT !.status = "failed", !.error = message] IN mapItem(q, id, ch)

\* the setQueue updates of one finished convertFile call (try/catch around it)
settle(q, id, c) ==
    IF c.ret = "ok" THEN setCompleted(q, id, c.blob) ELSE setFailed(q, id, c.err)

oracleError(file, target) == getConversionError(getFileTypeInfo(file), target)

getAllowedTargetsForFile(file) ==
    SeqToSet(formatsOf(getValidTargetFormats(<<getFileTypeInfo(file)>>)))

\* null is Undefined
pickPrimaryTarget(file) ==
    LET allowed == getAllowedTargetsForFile(file)
        hits == {i \in 1..Len(TARGET_PREFERENCE) : TARGET_PREFERENCE[i] \in allowed}
    IN  IF hits = {} THEN Undefined
        ELSE TARGET_PREFERENCE[CHOOSE i \in hits : \A j \in hits : i <= j]

countStatus(q, st) == Cardinality({i \in 1..Len(q) : q[i].status = st})
queuedCount == countStatus(queue, "queued")
compatibleCount ==
    Cardinality({i \in 1..Len(queue) : oracleError(queue[i].file, targetFormat) = Undefined})
validFormats == getValidTargetFormats([i \in 1..Len(queue) |-> getFileTypeInfo(queue[i].file)])

----------------------------------------------------------------------------
(* Editor page: the page list (EditorPage.tsx), the files it is made from   *)
(* (fileProcessor.ts) and the assembly of the output PDF (pdfExporter.ts).  *)
(* pageNumber and totalPages are 0 where the code leaves them undefined:    *)
(* the code only tests them for truthiness before using them.               *)

MaxEntries == 3      \* entries of the page list
MaxEntriesSmall == 2 \* the same, where the converter is checked beside the editor
MaxUpload == 2       \* files of one upload
MaxPageIds == 3      \* entries created by uploads in one behaviour

Document(name, type, numPages) == [name |-> name, type |-> type, numPages |-> numPages]
ThreePages == Document("report.pdf", "application/pdf", 3)
OnePage    == Document("cover.pdf", "application/pdf", 1)
Photo      == Document("photo.png", "image/png", 0)
Anim       == Document("anim.gif", "image/gif", 0)
Notes      == Document("notes.txt", "text/plain", 0)
Documents  == {ThreePages, OnePage, Photo, Anim, Notes}

includes(s, p) == \E i \in 1..(Len(s) - Len(p) + 1) : SubSeq(s, i, i + Len(p) - 1) = p

PageData(id, type, originalFile, pageNumber, totalPages) ==
    [id |-> id, type |-> type, originalFile |-> originalFile, pageNumber |-> pageNumber,
     totalPages |-> totalPages, rotation |-> 0]

\* ids are `${file.name}-${Date.now()}` and `${file.name}-${pageNum}-${Date.now()}`
processPDFAsSingle(file, now) == PageData(<<file.name, 0, now>>, "pdf", file, 1, file.numPages)
processImage(file, now) == PageData(<<file.name, 0, now>>, "image", file, 0, 0)
processPDF(file, now) ==
    [pageNum \in 1..file.numPages |-> PageData(<<file.name, pageNum, now>>, "pdf", file, pageNum, 0)]

RECURSIVE processFiles(_, _)
processFiles(files, now) ==
    IF files = <<>> THEN <<>>
    ELSE LET file == Head(files) IN
         IF file.type = "application/pdf"
         THEN <<processPDFAsSingle(file, now)>> \o processFiles(Tail(files), now + 1)
         ELSE IF startsWith(file.type, "image/")
         THEN <<processImage(file, now)>> \o processFiles(Tail(files), now + 1)
         ELSE processFiles(Tail(files), now)

\* a page of the output document: the source file, the page copied from it (0 for an
\* image), whether an invisible text layer was drawn on it, and the rotation the
\* page is shown with (the pages of the source files are upright)
OutPage(file, index, layer, rotation) ==
    [file |-> file, index |-> index, layer |-> layer, rotation |-> rotation]
OcrOutcomes == {"failed", "blank", "text"}

addOCRToPage(outcome) == [threw |-> FALSE, layer |-> outcome = "text"]
addOCRToImagePage(outcome) == [threw |-> FALSE, layer |-> outcome = "text"]

\* addPDFPage copying every page of the source of a multi-page entry
addPDFPage_AllPages(pageData, options, loads) ==
    IF ~loads THEN [threw |-> TRUE, page |-> <<>>, ocr |-> FALSE]
    ELSE LET pageIndex == IF pageData.pageNumber # 0 THEN pageData.pageNumber - 1 ELSE 0
             rotation == IF pageData.rotation # 0 THEN pageData.rotation ELSE 0
         IN  [threw |-> FALSE,
              page |-> IF pageData.totalPages > 1
                       THEN [k \in 1..pageData.totalPages |->
                                OutPage(pageData.originalFile, k, FALSE, rotation)]
                       ELSE <<OutPage(pageData.originalFile, pageIndex + 1, FALSE, rotation)>>,
              ocr |-> options.ocrEnabled /\ pageData.pageNumber # 0]

\* the result of adding one page up to its OCR run: threw, or the page added to pdfDoc
\* and whether addOCRToPage is awaited next
addPDFPage(pageData, options, loads) ==
    IF ~loads THEN [threw |-> TRUE, page |-> <<>>, ocr |-> FALSE]
    ELSE LET pageIndex == IF pageData.pageNumber # 0 THEN pageData.pageNumber - 1 ELSE 0 IN
         [threw |-> FALSE,
          page |-> <<OutPage(pageData.originalFile, pageIndex + 1, FALSE,
                             IF pageData.rotation # 0 THEN pageData.rotation ELSE 0)>>,
          ocr |-> options.ocrEnabled /\ pageData.pageNumber # 0]

\* embedPng / embedJpg reject bytes of another format; recompression keeps the
\* format of the file
addImagePage(pageData, options) ==
    LET type == pageData.originalFile.type
        embeds == IF includes(type, "png") THEN TRUE ELSE type = "image/jpeg"
    IN  IF ~embeds THEN [threw |-> TRUE, page |-> <<>>, ocr |-> FALSE]
        ELSE [threw |-> FALSE,
              page |-> <<OutPage(pageData.originalFile, 0, FALSE, pageData.rotation)>>,
              ocr |-> options.ocrEnabled]

\* src is the page list the handler captured, final the list given to exportPDF
NoJob == [pc |-> "idle", by |-> "", src |-> <<>>, i |-> 0, final |-> <<>>, doc |-> <<>>,
          options |-> [ocrEnabled |-> FALSE, filename |-> ""], selected |-> FALSE,
          ocrFailed |-> FALSE]
\* ocrFailed says that an OCR run of the export failed
NoDownload == [filename |-> "", doc |-> <<>>, ocrFailed |-> FALSE]

shouldShowMerge == Cardinality({pages[i].originalFile.name : i \in 1..Len(pages)}) > 1

isMultiPagePDF(page) == page.type = "pdf" /\ page.totalPages # 0 /\ page.totalPages > 1

(* ---- the ZIP download (createZipDownload, vite.config.ts) ---- *)

ZipFiles == {Png, Md}
ZipDrops == UNION {[1..k -> ZipFiles] : k \in 1..MaxDrop}

getFileExtension(format) ==
    CASE format = "pdf" -> "pdf"
      [] format = "png" -> "png"
      [] format = "jpg" -> "jpeg"
      [] format = "txt" -> "txt"
      [] OTHER -> format

\* zip.file(filename, data): an entry of that name is replaced, else one is added
zipFile(zip, filename, data) ==
    IF \E i \in 1..Len(zip) : zip[i].name = filename
    THEN [i \in 1..Len(zip) |-> IF zip[i].name = filename
                                THEN [name |-> filename, blob |-> data] ELSE zip[i]]
    ELSE Append(zip, [name |-> filename, blob |-> data])

\* the loop of createZipDownload over items[k..]; `${a}.${b}` is the name of
\* segments a, b, and split('.')[0] the first segment of the file name
RECURSIVE zipItems(_, _, _, _)
zipItems(zip, items, k, format) ==
    IF k > Len(items) THEN zip
    ELSE IF items[k].convertedBlob # NoBlob
    THEN zipItems(zipFile(zip, <<items[k].filename[1], getFileExtension(format)>>,
                          items[k].convertedBlob),
                  items, k + 1, format)
    ELSE zipItems(zip, items, k + 1, format)

createZipDownload(items, format) ==
    [items |-> items, targetFormat |-> format, zip |-> zipItems(<<>>, items, 1, format)]

NoArchive == [items |-> <<>>, targetFormat |-> "", zip |-> <<>>]

\* the state of the page after its first render, with no call of the converter made
Init ==
    /\ queue = <<>>
    /\ targetFormat = "pdf"
    /\ isConverting = FALSE
    /\ overallProgress = <<0, 1>>
    /\ selectedFiles = <<>>
    /\ selectedTypeTargets = <<>>
    /\ selectedIds = {}
    /\ toast = NoToast
    /\ batch = NoBatch
    /\ retries = <<>>
    /\ running = NobodyRuns
    /\ nextId = 1
    /\ archive = NoArchive
    /\ call = IdleCall /\ log = <<>> /\ prev = NoBlob /\ layout = NoLayout
    /\ batchIn = <<>> /\ tgtIn = "pdf" /\ validOut = <<>> /\ errOut = <<>> /\ mpc = "choose"
    /\ pages = <<>> /\ selectedPages = {} /\ isProcessing = FALSE
    /\ processingProgress = P(0) /\ editorToast = NoToast
    /\ job = NoJob /\ download = NoDownload /\ nextPageId = 1

(* ---- user events ---- *)

addFilesToQueue(files) ==
    IF Len(staleQueue) + Len(files) > MAX_FILES
    THEN /\ toast' = Toast("addFilesToQueue", "error", "Maximum 100 files allowed")
         /\ UNCHANGED <<queue, targetFormat, nextId>>
    ELSE LET isSmall(f) == ~f.big
             validFiles == SelectSeq(files, isSmall)
             newItems == [i \in 1..Len(validFiles) |-> NewItem(nextId + i - 1, validFiles[i])]
             allFiles == staleQueue \o newItems
             formats == getValidTargetFormats(
                            [i \in 1..Len(allFiles) |-> getFileTypeInfo(allFiles[i].file)])
             adjust == formats # <<>> /\ staleTargetFormat \notin SeqToSet(formatsOf(formats))
         IN  /\ queue' = queue \o newItems
             /\ nextId' = nextId + Len(validFiles)
             /\ targetFormat' = IF adjust THEN formats[1].format ELSE targetFormat
             /\ toast' = IF adjust
                         THEN Toast("addFilesToQueue", "info",
                                    "Target format changed based on selected files")
                         ELSE Toast("addFilesToQueue", "success",
                                    "Added " \o ToString(Len(validFiles)) \o " file(s) to queue")

\* handleDrop / handleFileSelect, while fewer than `most` files have been added
dropFiles(most) ==
    /\ running = NobodyRuns
    /\ \E files \in Drops :
          /\ nextId - 1 + Len(files) <= most
          /\ addFilesToQueue(files)
    /\ UNCHANGED <<isConverting, overallProgress, selectedFiles, selectedTypeTargets,
                   selectedIds, batch, retries, running, archive,
                   engineVars, matrixVars, editorVars>>

AddFiles == dropFiles(MaxQueue)
AddFewFiles == dropFiles(MaxQueueSmall)

\* a drop of many files at once, while fewer than MaxAdded files have been added
AddManyFiles ==
    /\ running = NobodyRuns
    /\ \E k \in DropSizes :
          /\ nextId - 1 + k <= MaxAdded
          /\ addFilesToQueue([i \in 1..k |-> Txt])
    /\ UNCHANGED <<isConverting, overallProgress, selectedFiles, selectedTypeTargets,
                   selectedIds, batch, retries, running, archive,
                   engineVars, matrixVars, editorVars>>

\* a drop of files with names of several dots, or of the same name twice
AddZipFiles ==
    /\ running = NobodyRuns
    /\ \E files \in ZipDrops :
          /\ nextId - 1 + Len(files) <= MaxQueueSmall
          /\ addFilesToQueue(files)
    /\ UNCHANGED <<isConverting, overallProgress, selectedFiles, selectedTypeTargets,
                   selectedIds, batch, retries, running, archive, engineVars, matrixVars,
                   editorVars>>

\* the Download ZIP button, shown while an item is completed
downloadZip ==
    /\ running = NobodyRuns
    /\ countStatus(queue, "completed") > 0
    /\ LET done(it) == it.status = "completed" /\ it.convertedBlob # NoBlob
           completedItems == SelectSeq(queue, done)
       IN  IF completedItems = <<>>
           THEN /\ toast' = Toast("downloadZip", "error", "No converted files to download")
                /\ UNCHANGED archive
           ELSE /\ archive' = createZipDownload(completedItems, targetFormat)
                /\ toast' = Toast("downloadZip", "success", "ZIP download started")
    /\ UNCHANGED <<queue, targetFormat, isConverting, overallProgress, selectedFiles,
                   selectedTypeTargets, selectedIds, batch, retries, running, nextId,
                   engineVars, matrixVars, editorVars>>

\* the X button of an item, disabled while the item is converting
removeFromQueue ==
    /\ running = NobodyRuns
    /\ \E i \in 1..Len(queue) :
          /\ queue[i].status # "converting"
          /\ LET keep(it) == it.id # queue[i].id IN queue' = SelectSeq(queue, keep)
    /\ UNCHANGED <<targetFormat, isConverting, overallProgress, selectedFiles,
                   selectedTypeTargets, selectedIds, toast, batch, retries, running, nextId,
                   archive, engineVars, matrixVars, editorVars>>

\* the Clear All button: setQueue([])
ClearAll ==
    /\ running = NobodyRuns
    /\ Len(queue) > 0
    /\ ~isConverting
    /\ queue' = <<>>
    /\ UNCHANGED <<targetFormat, isConverting, overallProgress, selectedFiles,
                   selectedTypeTargets, selectedIds, toast, batch, retries, running, nextId,
                   archive, engineVars, matrixVars, editorVars>>

\* the Target Format select, whose options are validFormats (or PDF alone)
SetTargetFormat ==
    /\ running = NobodyRuns
    /\ compatibleCount # 0
    /\ ~isConverting
    /\ \E f \in (IF validFormats = <<>> THEN {"pdf"} ELSE SeqToSet(formatsOf(validFormats))) :
          /\ f # targetFormat
          /\ targetFormat' = f
    /\ UNCHANGED <<queue, isConverting, overallProgress, selectedFiles, selectedTypeTargets,
                   selectedIds, toast, batch, retries, running, nextId, archive,
                   engineVars, matrixVars, editorVars>>

\* the checkbox of an item
toggleSelect ==
    /\ running = NobodyRuns
    /\ \E i \in 1..Len(queue) :
          selectedIds' = IF queue[i].id \in selectedIds THEN selectedIds \ {queue[i].id}
                         ELSE selectedIds \cup {queue[i].id}
    /\ UNCHANGED <<queue, targetFormat, isConverting, overallProgress, selectedFiles,
                   selectedTypeTargets, toast, batch, retries, running, nextId,
                   archive, engineVars, matrixVars, editorVars>>

\* selectedFiles is a JS Set: it keeps insertion order
toggleFileSelection ==
    /\ running = NobodyRuns
    /\ \E i \in 1..Len(queue) :
          LET other(x) == x # queue[i].id IN
          selectedFiles' = IF queue[i].id \in SeqToSet(selectedFiles)
                           THEN SelectSeq(selectedFiles, other)
                           ELSE Append(selectedFiles, queue[i].id)
    /\ UNCHANGED <<queue, targetFormat, isConverting, overallProgress, selectedIds,
                   selectedTypeTargets, toast, batch, retries, running, nextId,
                   archive, engineVars, matrixVars, editorVars>>

(* ---- the batch loops ---- *)

Ref(it) == [id |-> it.id, file |-> it.file]

\* setIsConverting(true); setOverallProgress(0); the loop is entered
beginBatch(op, items, targets, fid, total) ==
    /\ batch' = [op |-> op, items |-> items, targets |-> targets, fid |-> fid, idx |-> 1,
                 pc |-> "item", call |-> IdleCall, total |-> total,
                 snapCompleted |-> countStatus(queue, "completed"),
                 snapFailed |-> countStatus(queue, "failed")]
    /\ isConverting' = TRUE
    /\ overallProgress' = <<0, total>>
    /\ running' = BatchRuns

\* convertAll leaving the rejected items out of the batch instead of refusing it
convertAll_SkipInvalid ==
    LET isValidPending(it) == /\ it.status \in {"queued", "failed"}
                              /\ oracleError(it.file, targetFormat) = Undefined
        queuedItems == SelectSeq(queue, isValidPending)
    IN  IF queuedItems = <<>>
        THEN /\ toast' = Toast("convertAll", "error", "No files to convert")
             /\ UNCHANGED <<batch, isConverting, overallProgress, running>>
        ELSE /\ beginBatch("convertAll", [i \in 1..Len(queuedItems) |-> Ref(queuedItems[i])],
                           [i \in 1..Len(queuedItems) |-> targetFormat], "balanced",
                           Len(queuedItems))
             /\ UNCHANGED toast

\* preservationSettings keeps its initial fidelity, 'balanced' (200-207)
convertAll ==
    LET isPending(it) == it.status \in {"queued", "failed"}
        queuedItems == SelectSeq(queue, isPending)
        isInvalid(it) == oracleError(it.file, targetFormat) # Undefined
        invalidItems == SelectSeq(queuedItems, isInvalid)
    IN  IF invalidItems # <<>>
        THEN /\ toast' = Toast("convertAll", "error",
                               oracleError(invalidItems[1].file, targetFormat))
             /\ UNCHANGED <<batch, isConverting, overallProgress, running>>
        ELSE IF queuedItems = <<>>
        THEN /\ toast' = Toast("convertAll", "error", "No files to convert")
             /\ UNCHANGED <<batch, isConverting, overallProgress, running>>
        ELSE /\ beginBatch("convertAll", [i \in 1..Len(queuedItems) |-> Ref(queuedItems[i])],
                           [i \in 1..Len(queuedItems) |-> targetFormat], "balanced",
                           Len(queuedItems))
             /\ UNCHANGED toast

\* the Convert All button
ConvertAllClick ==
    /\ running = NobodyRuns
    /\ queuedCount # 0 /\ ~isConverting /\ compatibleCount # 0
    /\ convertAll
    /\ UNCHANGED <<queue, targetFormat, selectedFiles, selectedTypeTargets, selectedIds,
                   retries, nextId, archive, engineVars, matrixVars, editorVars>>

convertSpecific(items, target) ==
    LET isInvalid(it) == oracleError(it.file, target) # Undefined
        invalid == SelectSeq(items, isInvalid)
    IN  IF invalid # <<>>
        THEN /\ toast' = Toast("convertSpecific", "error", oracleError(invalid[1].file, target))
             /\ UNCHANGED <<batch, isConverting, overallProgress, running>>
        ELSE IF items = <<>>
        THEN \* the loop body never runs: setIsConverting(true) ... setIsConverting(false)
             /\ toast' = Toast("convertSpecific", "success",
                               "Converted 0 file(s) to " \o toUpperCase(target))
             /\ overallProgress' = <<0, 0>>
             /\ UNCHANGED <<batch, isConverting, running>>
        ELSE /\ beginBatch("convertSpecific", [i \in 1..Len(items) |-> Ref(items[i])],
                           [i \in 1..Len(items) |-> target], Undefined, Len(items))
             /\ UNCHANGED toast

\* the Convert Selected button of selectedIds (908-920); with no selected item left
\* in the queue, selectedItems[0].file throws and the handler does nothing
ConvertSelectedIdsClick ==
    /\ running = NobodyRuns
    /\ selectedIds # {} /\ ~isConverting
    /\ LET isSelected(it) == it.id \in selectedIds
           selectedItems == SelectSeq(queue, isSelected)
           notCompleted(it) == it.status # "completed"
       IN  IF selectedItems = <<>>
           THEN UNCHANGED <<toast, batch, isConverting, overallProgress, running>>
           ELSE LET primary == pickPrimaryTarget(selectedItems[1].file) IN
                convertSpecific(SelectSeq(selectedItems, notCompleted),
                                IF primary = Undefined THEN "pdf" ELSE primary)
    /\ UNCHANGED <<queue, targetFormat, selectedFiles, selectedTypeTargets, selectedIds,
                   retries, nextId, archive, engineVars, matrixVars, editorVars>>

RECURSIVE firstSeen(_)
\* the keys of a Map in insertion order
firstSeen(s) ==
    IF s = <<>> THEN <<>>
    ELSE LET rest == firstSeen(SubSeq(s, 1, Len(s) - 1)) IN
         IF s[Len(s)] \in SeqToSet(rest) THEN rest ELSE Append(rest, s[Len(s)])

RECURSIVE flatten(_)
flatten(ss) == IF ss = <<>> THEN <<>> ELSE Head(ss) \o flatten(Tail(ss))

\* the selected items still in the queue, in selection order
selectedPresent ==
    LET present(id) == \E i \in 1..Len(queue) : queue[i].id = id
        ids == SelectSeq(selectedFiles, present)
    IN  [k \in 1..Len(ids) |-> queue[CHOOSE i \in 1..Len(queue) : queue[i].id = ids[k]]]

\* getSelectedFilesByType: a Map from category to the selected items of it
getSelectedFilesByType ==
    LET files == selectedPresent
        keys == firstSeen([k \in 1..Len(files) |-> getFileTypeInfo(files[k].file).category])
    IN  [g \in 1..Len(keys) |->
            LET inGroup(it) == getFileTypeInfo(it.file).category = keys[g] IN
            [fileType |-> keys[g], files |-> SelectSeq(files, inGroup)]]

\* selectedTypeTargets[fileType] || pickPrimaryTarget(files[0].file) || 'pdf'
groupTarget(group) ==
    IF group.fileType \in DOMAIN selectedTypeTargets THEN selectedTypeTargets[group.fileType]
    ELSE IF pickPrimaryTarget(group.files[1].file) # Undefined
    THEN pickPrimaryTarget(group.files[1].file)
    ELSE "pdf"

convertSelectedFiles ==
    LET groups == getSelectedFilesByType
        items == flatten([g \in 1..Len(groups) |->
                     [k \in 1..Len(groups[g].files) |-> Ref(groups[g].files[k])]])
        targets == flatten([g \in 1..Len(groups) |->
                     [k \in 1..Len(groups[g].files) |-> groupTarget(groups[g])]])
    IN  IF items = <<>>
        THEN /\ toast' = Toast("convertSelectedFiles", "success", "Converted 0 selected file(s)")
             /\ selectedFiles' = <<>>
             /\ overallProgress' = <<0, Len(selectedFiles)>>
             /\ UNCHANGED <<batch, isConverting, running>>
        ELSE /\ beginBatch("convertSelectedFiles", items, targets, Undefined,
                           Len(selectedFiles))
             /\ UNCHANGED <<toast, selectedFiles>>

\* the Convert Selected button of selectedFiles (897-906)
ConvertSelectedFilesClick ==
    /\ running = NobodyRuns
    /\ selectedFiles # <<>> /\ ~isConverting
    /\ convertSelectedFiles
    /\ UNCHANGED <<queue, targetFormat, selectedTypeTargets, selectedIds, retries, nextId,
                   archive, engineVars, matrixVars, editorVars>>

\* the loop marks the next item converting and calls convertFile on it
BatchSetConverting ==
    /\ running = BatchRuns
    /\ batch.pc = "item"
    /\ queue' = setConverting(queue, batch.items[batch.idx].id)
    /\ batch' = [batch EXCEPT !.pc = "call",
                              !.call = NewCall(batch.items[batch.idx].file,
                                               batch.targets[batch.idx], batch.fid)]
    /\ UNCHANGED <<targetFormat, isConverting, overallProgress, selectedFiles,
                   selectedTypeTargets, selectedIds, toast, retries, running, nextId,
                   archive, engineVars, matrixVars, editorVars>>

\* the call of the loop runs on (resumed by the event loop when it was suspended)
BatchCallStep ==
    /\ batch.pc = "call"
    /\ batch.call.ret = "run"
    /\ running = IF batch.call.aw THEN NobodyRuns ELSE BatchRuns
    /\ \E r \in convertFileStep(batch.call) :
          /\ batch' = [batch EXCEPT !.call = r.c]
          /\ queue' = IF r.out = NoP THEN queue
                      ELSE setProgress(queue, batch.items[batch.idx].id, r.out)
          /\ running' = IF r.c.aw THEN NobodyRuns ELSE BatchRuns
    /\ UNCHANGED <<targetFormat, isConverting, overallProgress, selectedFiles,
                   selectedTypeTargets, selectedIds, toast, retries, nextId,
                   archive, engineVars, matrixVars, editorVars>>

finishToast ==
    IF batch.op = "convertAll"
    THEN \* the counts are taken from the `queue` of the render of the click
         IF batch.snapCompleted > 0
         THEN Toast("convertAll", "success",
                    "Converted " \o ToString(batch.snapCompleted) \o " file(s)"
                    \o (IF batch.snapFailed > 0
                        THEN ", " \o ToString(batch.snapFailed) \o " failed" ELSE ""))
         ELSE Toast("convertAll", "error", "All conversions failed")
    ELSE IF batch.op = "convertSpecific"
    THEN Toast("convertSpecific", "success",
               "Converted " \o ToString(batch.idx) \o " file(s) to "
               \o toUpperCase(batch.targets[1]))
    ELSE Toast("convertSelectedFiles", "success",
               "Converted " \o ToString(batch.idx) \o " selected file(s)")

\* the loop leaving at the first failed conversion
BatchSettle_StopOnFailure ==
    /\ running = BatchRuns
    /\ batch.pc = "call"
    /\ batch.call.ret \in {"ok", "err"}
    /\ queue' = settle(queue, batch.items[batch.idx].id, batch.call)
    /\ overallProgress' = <<batch.idx, batch.total>>
    /\ IF batch.idx < Len(batch.items) /\ batch.call.ret = "ok"
       THEN /\ batch' = [batch EXCEPT !.idx = @ + 1, !.pc = "item", !.call = IdleCall]
            /\ UNCHANGED <<isConverting, toast, selectedFiles, running>>
       ELSE /\ batch' = NoBatch
            /\ isConverting' = FALSE
            /\ toast' = finishToast
            /\ selectedFiles' = IF batch.op = "convertSelectedFiles" THEN <<>> ELSE selectedFiles
            /\ running' = NobodyRuns
    /\ UNCHANGED <<targetFormat, selectedTypeTargets, selectedIds, retries, nextId,
                   archive, engineVars, matrixVars, editorVars>>

\* the call has ended: the item becomes completed or failed, the loop goes on to the
\* next item or ends (setIsConverting(false), the toast)
BatchSettle ==
    /\ running = BatchRuns
    /\ batch.pc = "call"
    /\ batch.call.ret \in {"ok", "err"}
    /\ queue' = settle(queue, batch.items[batch.idx].id, batch.call)
    /\ overallProgress' = <<batch.idx, batch.total>>
    /\ IF batch.idx < Len(batch.items)
       THEN /\ batch' = [batch EXCEPT !.idx = @ + 1, !.pc = "item", !.call = IdleCall]
            /\ UNCHANGED <<isConverting, toast, selectedFiles, running>>
       ELSE /\ batch' = NoBatch
            /\ isConverting' = FALSE
            /\ toast' = finishToast
            /\ selectedFiles' = IF batch.op = "convertSelectedFiles" THEN <<>> ELSE selectedFiles
            /\ running' = NobodyRuns
    /\ UNCHANGED <<targetFormat, selectedTypeTargets, selectedIds, retries, nextId,
                   archive, engineVars, matrixVars, editorVars>>

(* ---- retry ---- *)

\* the Retry button, shown for a failed item
retryItem ==
    /\ running = NobodyRuns
    /\ Len(retries) < MaxRetries
    /\ \E i \in 1..Len(queue) :
          /\ queue[i].status = "failed"
          /\ queue' = setConverting(queue, queue[i].id)
          /\ retries' = Append(retries, [id |-> queue[i].id,
                                         call |-> NewCall(queue[i].file, targetFormat, Undefined)])
    /\ running' = RetryRuns(Len(retries) + 1)
    /\ UNCHANGED <<targetFormat, isConverting, overallProgress, selectedFiles,
                   selectedTypeTargets, selectedIds, toast, batch, nextId,
                   archive, engineVars, matrixVars, editorVars>>

RetryCallStep ==
    \E k \in 1..Len(retries) :
       /\ retries[k].call.ret = "run"
       /\ running = IF retries[k].call.aw THEN NobodyRuns ELSE RetryRuns(k)
       /\ \E r \in convertFileStep(retries[k].call) :
             /\ retries' = [retries EXCEPT ![k].call = r.c]
             /\ queue' = IF r.out = NoP THEN queue ELSE setProgress(queue, retries[k].id, r.out)
             /\ running' = IF r.c.aw THEN NobodyRuns ELSE RetryRuns(k)
       /\ UNCHANGED <<targetFormat, isConverting, overallProgress, selectedFiles,
                      selectedTypeTargets, selectedIds, toast, batch, nextId,
                      archive, engineVars, matrixVars, editorVars>>

RetrySettle ==
    \E k \in 1..Len(retries) :
       /\ running = RetryRuns(k)
       /\ retries[k].call.ret \in {"ok", "err"}
       /\ queue' = settle(queue, retries[k].id, retries[k].call)
       /\ retries' = [j \in 1..(Len(retries) - 1) |-> IF j < k THEN retries[j] ELSE retries[j + 1]]
       /\ running' = NobodyRuns
       /\ UNCHANGED <<targetFormat, isConverting, overallProgress, selectedFiles,
                      selectedTypeTargets, selectedIds, toast, batch, nextId,
                      archive, engineVars, matrixVars, editorVars>>

\* the queue under the Convert All and Retry controls
Next ==
    \/ AddFiles \/ removeFromQueue \/ ClearAll \/ SetTargetFormat
    \/ ConvertAllClick
    \/ BatchSetConverting \/ BatchCallStep \/ BatchSettle
    \/ retryItem \/ RetryCallStep \/ RetrySettle

Spec == Init /\ [][Next]_vars

\* The event loop resumes every suspended call in the end (its task queue is first-in
\* first-out) and a running handler runs on to its next await.
FairNext ==
    \/ AddFewFiles \/ removeFromQueue \/ ClearAll \/ SetTargetFormat
    \/ ConvertAllClick
    \/ BatchSetConverting \/ BatchCallStep \/ BatchSettle
    \/ retryItem \/ RetryCallStep \/ RetrySettle

FairSpec ==
    /\ Init /\ [][FairNext]_vars
    /\ WF_vars(BatchSetConverting) /\ SF_vars(BatchCallStep) /\ WF_vars(BatchSettle)
    /\ SF_vars(RetryCallStep) /\ WF_vars(RetrySettle)

\* the queue under the selection controls and the two Convert Selected handlers
SelectNext ==
    \/ AddFewFiles \/ removeFromQueue
    \/ toggleSelect \/ toggleFileSelection
    \/ ConvertSelectedIdsClick \/ ConvertSelectedFilesClick
    \/ BatchSetConverting \/ BatchCallStep \/ BatchSettle

SpecSelect == Init /\ [][SelectNext]_vars

\* the queue under Convert All and Download ZIP
ZipNext ==
    \/ AddZipFiles \/ SetTargetFormat
    \/ ConvertAllClick
    \/ BatchSetConverting \/ BatchCallStep \/ BatchSettle
    \/ downloadZip

SpecZip == Init /\ [][ZipNext]_vars

\* the queue under large drops and Clear All
LimitNext == AddManyFiles \/ ClearAll

SpecLimit == Init /\ [][LimitNext]_vars

----------------------------------------------------------------------------
(* Engine specification: one convertFile call on any file, target format    *)
(* and preservation settings, observed through its onProgress callback.     *)

\* a caller invokes convertFile(file, targetFormat, onProgress, settings)
StartConvert ==
    /\ call.ret = "idle"
    /\ \E file \in Files, target \in TargetSet, fid \in Fidelities :
          call' = NewCall(file, target, fid)
    /\ log' = <<>>
    /\ UNCHANGED <<prev, layout, queueVars, matrixVars, editorVars>>

\* the call runs to its next onProgress, await or end
EngineStep ==
    /\ call.ret = "run"
    /\ \E r \in convertFileStep(call) :
          /\ call' = r.c
          /\ log' = IF r.out = NoP THEN log ELSE Append(log, r.out)
    /\ UNCHANGED <<prev, layout, queueVars, matrixVars, editorVars>>

\* the caller converts the returned File once more to the same target
ConvertAgain ==
    /\ call.ret = "ok"
    /\ call.blob.same
    /\ prev = NoBlob
    /\ prev' = call.blob
    /\ call' = NewCall(call.blob.file, call.target, call.fid)
    /\ log' = <<>>
    /\ UNCHANGED <<layout, queueVars, matrixVars, editorVars>>

EngineNext == StartConvert \/ EngineStep \/ ConvertAgain

SpecEngine == Init /\ [][EngineNext]_vars

\* the layout of a text of any number of lines
ChooseText ==
    /\ layout.pc \in {"idle", "done"}
    /\ \E lines \in 0..MaxLines : layout' = [NoLayout EXCEPT !.pc = "chosen", !.lines = lines]
    /\ UNCHANGED <<call, log, prev, queueVars, matrixVars, editorVars>>

LayOutText ==
    /\ layout.pc = "chosen"
    /\ layout' = layOut(layout.lines)
    /\ UNCHANGED <<call, log, prev, queueVars, matrixVars, editorVars>>

LayoutNext == ChooseText \/ LayOutText

SpecLayout == Init /\ [][LayoutNext]_vars

----------------------------------------------------------------------------
(* Matrix specification: getValidTargetFormats and getConversionError       *)
(* applied to a batch of classified files and a target format.              *)

MaxBatch == 2        \* files of a batch given to getValidTargetFormats

OracleTargets == TargetSet \cup {"xlsx", "gif"}

Batches == UNION {[1..k -> Files] : k \in 0..MaxBatch}

ChooseBatch ==
    /\ mpc = "choose"
    /\ mpc' = "chosen"
    /\ batchIn' \in Batches
    /\ tgtIn' \in OracleTargets
    /\ UNCHANGED <<validOut, errOut, queueVars, engineVars, editorVars>>

Evaluate ==
    /\ mpc = "chosen"
    /\ mpc' = "done"
    /\ validOut' = getValidTargetFormats([i \in 1..Len(batchIn) |-> getFileTypeInfo(batchIn[i])])
    /\ errOut' = [i \in 1..Len(batchIn) |-> getConversionError(getFileTypeInfo(batchIn[i]), tgtIn)]
    /\ UNCHANGED <<batchIn, tgtIn, queueVars, engineVars, editorVars>>

MatrixNext == ChooseBatch \/ Evaluate

SpecMatrix == Init /\ [][MatrixNext]_vars

----------------------------------------------------------------------------
(* Editor specification: uploads, the page list, Merge and Export. A merge   *)
(* or export works on the page list it captured at the click, so the events *)
(* of the page list are left out while one is in flight.                    *)

Uploads == UNION {[1..k -> Documents] : k \in 1..MaxUpload}

handleFileUpload(files, most) ==
    /\ job.pc = "idle" /\ ~isProcessing
    /\ LET newPages == processFiles(files, nextPageId) IN
       /\ Len(pages) + Len(newPages) <= most
       /\ nextPageId + Len(newPages) <= MaxPageIds + 1
       /\ \/ /\ pages' = pages \o newPages
             /\ nextPageId' = nextPageId + Len(newPages)
             /\ editorToast' = Toast("handleFileUpload", "success",
                    "Successfully processed " \o ToString(Len(files)) \o " file(s)")
          \/ /\ \E i \in 1..Len(files) : files[i].type = "application/pdf"
             /\ editorToast' = Toast("handleFileUpload", "error",
                    "Failed to process files. Please try again.")
             /\ UNCHANGED <<pages, nextPageId>>
    /\ download' = NoDownload
    /\ UNCHANGED <<selectedPages, isProcessing, processingProgress, job,
                   queueVars, engineVars, matrixVars>>

UploadFiles == \E files \in Uploads : handleFileUpload(files, MaxEntries)
UploadFewFiles == \E files \in Uploads : handleFileUpload(files, MaxEntriesSmall)

handlePageReorder(dragIndex, hoverIndex) ==
    /\ job.pc = "idle" /\ ~isProcessing
    /\ LET draggedPage == pages[dragIndex]
           removed == SubSeq(pages, 1, dragIndex - 1) \o SubSeq(pages, dragIndex + 1, Len(pages))
       IN  pages' = SubSeq(removed, 1, hoverIndex - 1) \o <<draggedPage>>
                    \o SubSeq(removed, hoverIndex, Len(removed))
    /\ download' = NoDownload
    /\ editorToast' = NoToast
    /\ UNCHANGED <<selectedPages, isProcessing, processingProgress, job,
                   nextPageId, queueVars, engineVars, matrixVars>>

ReorderPages ==
    \E dragIndex, hoverIndex \in 1..Len(pages) :
        dragIndex # hoverIndex /\ handlePageReorder(dragIndex, hoverIndex)

handlePageRotate(pageId) ==
    /\ job.pc = "idle" /\ ~isProcessing
    /\ pages' = [i \in 1..Len(pages) |->
                    IF pages[i].id = pageId
                    THEN [pages[i] EXCEPT !.rotation = (pages[i].rotation + 90) % 360]
                    ELSE pages[i]]
    /\ download' = NoDownload
    /\ editorToast' = NoToast
    /\ UNCHANGED <<selectedPages, isProcessing, processingProgress, job,
                   nextPageId, queueVars, engineVars, matrixVars>>

RotatePage == \E i \in 1..Len(pages) : handlePageRotate(pages[i].id)

handlePageDelete(pageId) ==
    /\ job.pc = "idle" /\ ~isProcessing
    /\ pages' = SelectSeq(pages, LAMBDA page : page.id # pageId)
    /\ selectedPages' = selectedPages \ {pageId}
    /\ download' = NoDownload
    /\ editorToast' = NoToast
    /\ UNCHANGED <<isProcessing, processingProgress, job, nextPageId,
                   queueVars, engineVars, matrixVars>>

DeletePage == \E i \in 1..Len(pages) : handlePageDelete(pages[i].id)

handlePageSelect(pageId, isSelected) ==
    /\ job.pc = "idle" /\ ~isProcessing
    /\ selectedPages' = IF isSelected THEN selectedPages \cup {pageId}
                        ELSE selectedPages \ {pageId}
    /\ download' = NoDownload
    /\ editorToast' = NoToast
    /\ UNCHANGED <<pages, isProcessing, processingProgress, job,
                   nextPageId, queueVars, engineVars, matrixVars>>

SelectPage ==
    \E i \in 1..Len(pages) : handlePageSelect(pages[i].id, pages[i].id \notin selectedPages)

\* the start of exportPDF, after setIsProcessing(true) and setProcessingProgress(0)
startExport(by, src, list, filename, selected) ==
    /\ job' = [pc |-> "export", by |-> by, src |-> src, i |-> 1, final |-> list, doc |-> <<>>,
               options |-> [ocrEnabled |-> TRUE, filename |-> filename],
               selected |-> selected, ocrFailed |-> FALSE]
    /\ isProcessing' = TRUE
    /\ processingProgress' = P(0)

\* handleMergePDF without its auto-split
handleMergePDF_NoSplit ==
    /\ job.pc = "idle" /\ ~isProcessing /\ shouldShowMerge
    /\ LET pagesToMerge == IF selectedPages # {}
                           THEN SelectSeq(pages, LAMBDA page : page.id \in selectedPages)
                           ELSE pages
       IN  IF pagesToMerge = <<>>
           THEN /\ editorToast' = Toast("handleMergePDF", "error", "No pages to merge")
                /\ UNCHANGED <<job, isProcessing, processingProgress>>
           ELSE /\ startExport("merge", pagesToMerge, pagesToMerge,
                               IF selectedPages # {} THEN "selected-merged.pdf"
                               ELSE "merged-document.pdf", selectedPages # {})
                /\ editorToast' = NoToast
    /\ download' = NoDownload
    /\ UNCHANGED <<pages, selectedPages, nextPageId, queueVars, engineVars, matrixVars>>

\* handleMergePDF up to its first await
handleMergePDF ==
    /\ job.pc = "idle" /\ ~isProcessing /\ shouldShowMerge
    /\ LET pagesToMerge == IF selectedPages # {}
                           THEN SelectSeq(pages, LAMBDA page : page.id \in selectedPages)
                           ELSE pages
           hasMultiPagePDF == \E i \in 1..Len(pagesToMerge) : isMultiPagePDF(pagesToMerge[i])
           filename == IF selectedPages # {} THEN "selected-merged.pdf"
                       ELSE "merged-document.pdf"
       IN  IF pagesToMerge = <<>>
           THEN /\ editorToast' = Toast("handleMergePDF", "error", "No pages to merge")
                /\ UNCHANGED <<job, isProcessing, processingProgress>>
           ELSE IF hasMultiPagePDF /\ Len(pagesToMerge) > 1
           THEN /\ job' = [NoJob EXCEPT !.pc = "split", !.by = "merge", !.src = pagesToMerge,
                                       !.i = 1,
                                       !.options = [ocrEnabled |-> TRUE, filename |-> filename],
                                       !.selected = selectedPages # {}]
                /\ editorToast' = NoToast /\ UNCHANGED <<isProcessing, processingProgress>>
           ELSE /\ startExport("merge", pagesToMerge, pagesToMerge, filename,
                               selectedPages # {})
                /\ editorToast' = NoToast
    /\ download' = NoDownload
    /\ UNCHANGED <<pages, selectedPages, nextPageId, queueVars, engineVars, matrixVars>>

\* one turn of the loop that builds finalPagesToMerge; a processPDF that throws ends
\* the handler outside its try block
MergeSplitStep ==
    /\ job.pc = "split"
    /\ LET page == job.src[job.i]
           splitPages == IF isMultiPagePDF(page) THEN processPDF(page.originalFile, nextPageId)
                         ELSE <<page>>
           finalPagesToMerge == job.final \o splitPages
       IN  \/ /\ isMultiPagePDF(page)
              /\ job' = NoJob
              /\ editorToast' = NoToast /\ UNCHANGED <<isProcessing, processingProgress>>
           \/ /\ job.i < Len(job.src)
              /\ job' = [job EXCEPT !.i = @ + 1, !.final = finalPagesToMerge]
              /\ editorToast' = NoToast /\ UNCHANGED <<isProcessing, processingProgress>>
           \/ /\ job.i = Len(job.src)
              /\ editorToast' = Toast("handleMergePDF", "info",
                                      "Multi-page PDFs automatically split for merging")
              /\ startExport("merge", job.src, finalPagesToMerge, job.options.filename,
                             job.selected)
    /\ download' = NoDownload
    /\ UNCHANGED <<pages, selectedPages, nextPageId, queueVars, engineVars, matrixVars>>

handleExportPDF ==
    /\ job.pc = "idle" /\ ~isProcessing
    /\ pages # <<>>
    /\ startExport("export", pages, pages, "merged-document.pdf", FALSE)
    /\ download' = NoDownload
    /\ editorToast' = NoToast
    /\ UNCHANGED <<pages, selectedPages, nextPageId,
                   queueVars, engineVars, matrixVars>>

\* the catch and finally blocks of handleMergePDF and handleExportPDF
exportFailed ==
    /\ editorToast' = Toast(IF job.by = "merge" THEN "handleMergePDF" ELSE "handleExportPDF",
                            "error",
                            IF job.by = "merge" THEN "Failed to merge PDF"
                            ELSE "Failed to export PDF")
    /\ job' = NoJob
    /\ isProcessing' = FALSE
    /\ processingProgress' = P(0)

\* one turn of the loop of exportPDF, up to the OCR run of the page if it has one
ExportPageStep ==
    /\ job.pc = "export" /\ job.i <= Len(job.final)
    /\ \E loads \in BOOLEAN :
          LET pageData == job.final[job.i]
              totalPages == Len(job.final)
              r == IF pageData.type = "pdf" THEN addPDFPage(pageData, job.options, loads)
                   ELSE addImagePage(pageData, job.options)
          IN  IF r.threw THEN exportFailed
              ELSE IF r.ocr
              THEN /\ job' = [job EXCEPT !.pc = "ocr", !.doc = @ \o r.page]
                   /\ editorToast' = NoToast
                   /\ UNCHANGED <<isProcessing, processingProgress>>
              ELSE /\ job' = [job EXCEPT !.i = @ + 1, !.doc = @ \o r.page]
                   /\ processingProgress' = [n |-> job.i * 100, d |-> totalPages]
                   /\ editorToast' = NoToast /\ UNCHANGED isProcessing
    /\ download' = NoDownload
    /\ UNCHANGED <<pages, selectedPages, nextPageId, queueVars, engineVars, matrixVars>>

\* the OCR run of the page just added, and the end of that turn of the loop
ExportOcrStep ==
    /\ job.pc = "ocr"
    /\ \E outcome \in OcrOutcomes :
          LET pageData == job.final[job.i]
              totalPages == Len(job.final)
              page == job.doc[Len(job.doc)]
              r == IF pageData.type = "pdf" THEN addOCRToPage(outcome)
                   ELSE addOCRToImagePage(outcome)
          IN  IF r.threw THEN exportFailed
              ELSE /\ job' = [job EXCEPT !.pc = "export", !.i = @ + 1,
                                         !.doc[Len(job.doc)] =
                                             OutPage(page.file, page.index, r.layer,
                                                     page.rotation),
                                         !.ocrFailed = @ \/ outcome = "failed"]
                   /\ processingProgress' = [n |-> job.i * 100, d |-> totalPages]
                   /\ editorToast' = NoToast /\ UNCHANGED isProcessing
    /\ download' = NoDownload
    /\ UNCHANGED <<pages, selectedPages, nextPageId, queueVars, engineVars, matrixVars>>

\* pdfDoc.save(), downloadPDF and the rest of the handler
ExportSave ==
    /\ job.pc = "export" /\ job.i > Len(job.final)
    /\ download' = [filename |-> job.options.filename, doc |-> job.doc,
                    ocrFailed |-> job.ocrFailed]
    /\ editorToast' =
          IF job.by = "merge"
          THEN Toast("handleMergePDF", "success",
                     (IF job.selected THEN "Selected files" ELSE "All files")
                     \o " merged successfully!")
          ELSE Toast("handleExportPDF", "success", "PDF exported successfully!")
    /\ job' = NoJob
    /\ isProcessing' = FALSE
    /\ processingProgress' = P(0)
    /\ UNCHANGED <<pages, selectedPages, nextPageId, queueVars, engineVars, matrixVars>>

EditorNext ==
    \/ UploadFiles \/ ReorderPages \/ DeletePage \/ SelectPage
    \/ handleMergePDF \/ MergeSplitStep \/ handleExportPDF \/ ExportPageStep \/ ExportOcrStep
    \/ ExportSave

SpecEditor == Init /\ [][EditorNext]_vars

\* the editor under uploads, rotation, selection, merge and export
RotateNext ==
    \/ UploadFewFiles \/ RotatePage \/ SelectPage
    \/ handleMergePDF \/ MergeSplitStep \/ handleExportPDF \/ ExportPageStep \/ ExportOcrStep
    \/ ExportSave

SpecRotate == Init /\ [][RotateNext]_vars

\* The editor and the converter are two routes of the application (/editor and
\* /convert): a session runs OCR in one or in the other.
OnEditorRoute == call = IdleCall /\ log = <<>> /\ prev = NoBlob /\ layout = NoLayout
OnConverterRoute == pages = <<>> /\ job = NoJob /\ download = NoDownload /\ editorToast = NoToast

OcrNext ==
    \/ /\ OnConverterRoute
       /\ EngineNext
    \/ /\ OnEditorRoute
       /\ \/ UploadFewFiles \/ ReorderPages \/ DeletePage \/ SelectPage
          \/ handleMergePDF \/ MergeSplitStep \/ handleExportPDF \/ ExportPageStep
          \/ ExportOcrStep \/ ExportSave

SpecOcr == Init /\ [][OcrNext]_vars

----------------------------------------------------------------------------
(* Claims about the engine *)

NonDecreasing(s) == \A i \in 1..(Len(s) - 1) : PLeq(s[i], s[i + 1])

\* C1: for every convertFile call that returns successfully, the values passed to
\* onProgress are non-decreasing and the last one is exactly 100.
C1_ProgressMonotoneTo100 ==
    call.ret = "ok" =>
        /\ log # <<>>
        /\ NonDecreasing(log)
        /\ PEq(log[Len(log)], P(100))

OracleOf(c) == getConversionError(getFileTypeInfo(c.file), c.target)

\* C8: when the oracle rejects the file/target pair, convertFile fails with exactly
\* the oracle's message, before the short-circuit and before any converter is
\* dispatched, and onProgress is called at most once (the initial call).
C8_OracleFailsFast ==
    (call.ret # "idle" /\ OracleOf(call) # Undefined) =>
        /\ call.pc \in {"cf_start", "cf_check", "done"}
        /\ call.ret # "ok"
        /\ Len(log) <= 1
        /\ call.pc = "done" => (call.ret = "err" /\ call.err = OracleOf(call) /\ log = <<P(10)>>)

C8_Witness ==
    /\ call.ret = "err"
    /\ OracleOf(call) # Undefined
    /\ call.file = Txt /\ call.target = "png"

HundredCount(s) == Cardinality({i \in 1..Len(s) : PEq(s[i], P(100))})

\* C9: for a file already in its target category/extension convertFile returns the
\* original file object, passes 100 to onProgress exactly once, as the last value,
\* and converting the result again to the same target returns the same bytes.
C9_AlreadyInTarget ==
    (call.ret \in {"ok", "err"} /\ alreadyInTargetFormat(call)) =>
        /\ call.ret = "ok"
        /\ call.blob = SameFile(call)
        /\ HundredCount(log) = 1
        /\ PEq(log[Len(log)], P(100))
        /\ prev # NoBlob => call.blob = prev

C9_Witness ==
    /\ call.ret = "ok"
    /\ alreadyInTargetFormat(call)
    /\ prev # NoBlob
    /\ call.file = Png /\ call.target = "png"

----------------------------------------------------------------------------
(* Claims about the matrix and the oracle *)

\* C10: every target getValidTargetFormats does not offer for the batch of one file
\* is flagged (non-null) by getConversionError for that file.
C10_ExcludedIsFlagged ==
    (mpc = "done" /\ Len(batchIn) = 1 /\ tgtIn \in TargetSet) =>
        (tgtIn \notin SeqToSet(formatsOf(validOut)) => errOut[1] # Undefined)

----------------------------------------------------------------------------
(* Claims about the queue *)

statusOf(q, id) ==
    IF \E i \in 1..Len(q) : q[i].id = id
    THEN q[CHOOSE i \in 1..Len(q) : q[i].id = id].status
    ELSE "absent"

pendingInvalid ==
    LET bad(it) == /\ it.status \in {"queued", "failed"}
                   /\ oracleError(it.file, targetFormat) # Undefined
    IN  SelectSeq(queue, bad)

\* C2: a Convert All request made while some queued or failed item is rejected by
\* the Oracle for the selected target starts no conversion at all (no item changes,
\* no batch begins) and reports the Oracle's message for the first such item.
C2_ConvertAllIsAllOrNothing ==
    [][(ConvertAllClick /\ pendingInvalid # <<>>) =>
          /\ queue' = queue
          /\ batch' = NoBatch /\ isConverting' = FALSE /\ running' = NobodyRuns
          /\ toast' = Toast("convertAll", "error",
                            oracleError(pendingInvalid[1].file, targetFormat))]_vars

\* a rejected request, with a valid item waiting behind the rejected one
C2_Witness ==
    /\ toast.by = "convertAll" /\ toast.kind = "error"
    /\ pendingInvalid # <<>>
    /\ toast.text = oracleError(pendingInvalid[1].file, targetFormat)
    /\ \E i \in 1..Len(queue) : /\ queue[i].status = "queued"
                                /\ oracleError(queue[i].file, targetFormat) = Undefined
    /\ batch = NoBatch

LegalMove(from, to) ==
    <<from, to>> \in {<<"queued", "converting">>, <<"converting", "completed">>,
                      <<"converting", "failed">>, <<"failed", "converting">>}

\* C4: the status of an item changes only queued -> converting, converting ->
\* completed, converting -> failed or failed -> converting, and an item that enters
\* converting has progress 0 and no error.
C4_OnlyLegalTransitions ==
    [][\A i \in 1..Len(queue) : \A j \in 1..Len(queue') :
          (queue[i].id = queue'[j].id /\ queue[i].status # queue'[j].status) =>
              /\ LegalMove(queue[i].status, queue'[j].status)
              /\ queue'[j].status = "converting" =>
                    (PEq(queue'[j].progress, P(0)) /\ queue'[j].error = Undefined)]_vars

\* C5: an item has a converted blob exactly when it is completed, and an error
\* message exactly when it is failed.
C5_BlobIffCompleted ==
    \A i \in 1..Len(queue) :
        /\ (queue[i].convertedBlob # NoBlob) <=> (queue[i].status = "completed")
        /\ (queue[i].error # Undefined) <=> (queue[i].status = "failed")

\* C6: at most one item of the queue is converting at any time.
C6_OneConverting == countStatus(queue, "converting") <= 1

Ids == 1..MaxQueueSmall

\* the Convert All batch under way has not reached item id yet
waiting(id) ==
    /\ batch.op = "convertAll"
    /\ \E k \in 1..Len(batch.items) :
          /\ batch.items[k].id = id
          /\ k > batch.idx \/ (k = batch.idx /\ batch.pc = "item")

\* the Convert All batch has started item id
started(id) ==
    /\ batch.op = "convertAll" /\ batch.pc = "call"
    /\ batch.items[batch.idx].id = id
    /\ statusOf(queue, id) = "converting"

\* a failed conversion of the batch is stored in the error of its item
failureIsStored ==
    [][(BatchSettle /\ batch.call.ret = "err"
          /\ statusOf(queue, batch.items[batch.idx].id) # "absent") =>
       \E j \in 1..Len(queue') :
          /\ queue'[j].id = batch.items[batch.idx].id
          /\ queue'[j].status = "failed"
          /\ queue'[j].error = batch.call.err]_vars

\* C7 (as stated): every item a Convert All batch targets is started by it, and a
\* started item ends completed or failed; a failure is stored in the item's error and
\* the later items are still started.
C7_EveryTargetedItemSettles ==
    /\ \A id \in Ids : waiting(id) ~> started(id)
    /\ \A id \in Ids : started(id) ~> (statusOf(queue, id) \in {"completed", "failed"})
    /\ failureIsStored

\* C7 (amended): the same for every targeted item that is still in the queue when
\* its turn comes; an item removed from the queue before its turn is skipped.
C7_EveryRemainingItemSettles ==
    /\ \A id \in Ids : waiting(id) ~> (started(id) \/ statusOf(queue, id) = "absent")
    /\ \A id \in Ids : started(id) ~> (statusOf(queue, id) \in {"completed", "failed"})
    /\ failureIsStored

\* the first item of a batch has failed, with its error stored, and the second one
\* is being converted
C7_Witness ==
    /\ batch.op = "convertAll" /\ batch.idx = 2 /\ batch.pc = "call"
    /\ \E i \in 1..Len(queue) :
          /\ queue[i].id = batch.items[1].id
          /\ queue[i].status = "failed" /\ queue[i].error # Undefined
    /\ started(batch.items[2].id)

----------------------------------------------------------------------------
(* Claims about classification, the matrix and the oracle, continued *)

infoOf(i) == getFileTypeInfo(batchIn[i])
offered == SeqToSet(formatsOf(validOut))

\* C11: a target the oracle rejects for a single file is not offered by the matrix
\* to the batch made of that file alone (the list is empty or leaves the target out).
C11_FlaggedIsExcluded ==
    (mpc = "done" /\ Len(batchIn) = 1 /\ errOut[1] # Undefined) => tgtIn \notin offered

C11_Witness ==
    /\ mpc = "done" /\ batchIn = <<Txt>> /\ tgtIn = "png"
    /\ errOut[1] # Undefined /\ validOut # <<>> /\ "png" \notin offered

\* the rules of the classification in their order: <<category, the rule matches>>
classificationRules(file) ==
    LET ext == extensionOf(file)
        mime == file.type
    IN  << <<"pdf", mime = "application/pdf" \/ ext = "pdf">>,
           <<"image", startsWith(mime, "image/")
                      \/ ext \in {"png", "jpg", "jpeg", "gif", "bmp", "webp"}>>,
           <<"document", ext \in {"docx", "doc", "rtf", "odt"}>>,
           <<"spreadsheet", ext \in {"xlsx", "xls", "csv", "ods"}>>,
           <<"presentation", ext \in {"pptx", "ppt", "odp"}>>,
           <<"text", ext \in {"txt", "md", "json"} \/ startsWith(mime, "text/")>> >>

firstMatch(file) ==
    LET rules == classificationRules(file)
        hits == {k \in 1..Len(rules) : rules[k][2]}
    IN  IF hits = {} THEN "unknown"
        ELSE rules[CHOOSE k \in hits : \A j \in hits : k <= j][1]

\* C12: getFileTypeInfo gives every file (whatever its name and MIME type) the
\* category of the first rule that matches, in the order pdf, image, document,
\* spreadsheet, presentation, text, and unknown when none does; it always returns.
C12_FirstMatchingRule ==
    mpc = "done" =>
        \A i \in 1..Len(batchIn) :
            /\ infoOf(i).category = firstMatch(batchIn[i])
            /\ infoOf(i).category \in {"pdf", "image", "document", "spreadsheet",
                                       "presentation", "text", "unknown"}
            /\ infoOf(i).mimeType = batchIn[i].type

\* a .csv file of MIME text/csv next to a .pdf file of an image MIME
C12_Witness ==
    /\ mpc = "done" /\ batchIn = <<Csv, PdfImg>>
    /\ infoOf(1).category = "spreadsheet" /\ infoOf(2).category = "pdf"

categoriesIn == {infoOf(i).category : i \in 1..Len(batchIn)}

\* C13: for a non-empty batch the matrix offers pdf iff no file is unknown, png and
\* jpg iff all are image or pdf, txt iff all are document, pdf, text or spreadsheet,
\* csv iff all are spreadsheet or text, docx iff all are text or pdf; the formats
\* come in the order pdf, png, jpg, txt, csv, docx without duplicates; the empty
\* batch is offered nothing.
C13_MatrixRules ==
    mpc = "done" =>
        /\ batchIn = <<>> => validOut = <<>>
        /\ batchIn # <<>> =>
              /\ "pdf" \in offered <=> "unknown" \notin categoriesIn
              /\ "png" \in offered <=> categoriesIn \subseteq {"image", "pdf"}
              /\ "jpg" \in offered <=> categoriesIn \subseteq {"image", "pdf"}
              /\ "txt" \in offered
                    <=> categoriesIn \subseteq {"document", "pdf", "text", "spreadsheet"}
              /\ "csv" \in offered <=> categoriesIn \subseteq {"spreadsheet", "text"}
              /\ "docx" \in offered <=> categoriesIn \subseteq {"text", "pdf"}
        /\ offered \subseteq TargetSet
        /\ \A i \in 1..Len(validOut) : \A j \in 1..Len(validOut) :
              i < j => \E a \in 1..Len(Targets) : \E b \in 1..Len(Targets) :
                           a < b /\ Targets[a] = validOut[i].format
                                 /\ Targets[b] = validOut[j].format

\* a text file and a spreadsheet: pdf, txt and csv
C13_Witness ==
    /\ mpc = "done" /\ batchIn = <<Txt, Xlsx>>
    /\ formatsOf(validOut) = <<"pdf", "txt", "csv">>

somePdfIn == "pdf" \in categoriesIn
someWorkbookIn == \E i \in 1..Len(batchIn) : infoOf(i).extension \in {"xlsx", "xls"}

\* C14: in the descriptors, png and jpg announce a ZIP and carry the warning "PDFs
\* will create one image per page" exactly when some file is a pdf; csv announces a
\* ZIP exactly when some file has extension xlsx or xls; docx carries its beta
\* warning exactly when some file is a pdf; pdf and txt never announce a ZIP and
\* carry no warning.
C14_DescriptorFlags ==
    mpc = "done" =>
        \A k \in 1..Len(validOut) :
            LET d == validOut[k] IN
            /\ d.format \in {"png", "jpg"} =>
                  /\ d.willZip <=> somePdfIn
                  /\ d.warning = IF somePdfIn THEN "PDFs will create one image per page"
                                 ELSE Undefined
            /\ d.format = "csv" => (d.willZip <=> someWorkbookIn) /\ d.warning = Undefined
            /\ d.format = "docx" =>
                  /\ ~d.willZip
                  /\ d.warning = IF somePdfIn
                                 THEN "PDF to DOCX may alter layout (beta feature)"
                                 ELSE Undefined
            /\ d.format \in {"pdf", "txt"} => ~d.willZip /\ d.warning = Undefined

\* a pdf with an image (png and jpg zipped), and the descriptors of it
C14_Witness ==
    /\ mpc = "done" /\ batchIn = <<Pdf, Png>>
    /\ \E k \in 1..Len(validOut) : validOut[k].format = "png" /\ validOut[k].willZip

ImpossiblePairs ==
    ({"text"} \X {"png", "jpg"}) \cup ({"image"} \X {"docx", "csv", "xlsx"})
    \cup ({"unknown"} \X {"pdf", "png", "jpg", "txt", "csv", "docx"})

\* C15: getConversionError gives a message exactly for text -> png/jpg, image ->
\* docx/csv/xlsx and unknown -> pdf/png/jpg/txt/csv/docx, and null for every other
\* pair; two files of one category get a message or none together, and the same
\* message when their extensions are the same.
C15_OracleTable ==
    mpc = "done" =>
        /\ \A i \in 1..Len(batchIn) :
              errOut[i] # Undefined <=> <<infoOf(i).category, tgtIn>> \in ImpossiblePairs
        /\ \A i \in 1..Len(batchIn) : \A j \in 1..Len(batchIn) :
              infoOf(i).category = infoOf(j).category =>
                  /\ (errOut[i] = Undefined) <=> (errOut[j] = Undefined)
                  /\ infoOf(i).extension = infoOf(j).extension => errOut[i] = errOut[j]

\* an image asked for xlsx, next to an image of the same extension and another MIME
C15_Witness ==
    /\ mpc = "done" /\ batchIn = <<Png, PngUp>> /\ tgtIn = "xlsx"
    /\ errOut[1] = "PNG -> XLSX conversion is not supported." /\ errOut[2] = errOut[1]


----------------------------------------------------------------------------
(* Claims about PDF text extraction and OCR *)

\* the call went through extractTextFromPDF and that function has returned or thrown
extractionOver ==
    /\ call.sub # ""
    /\ \/ call.ret \in {"ok", "err"}
       \/ call.pc \in {"docx_90", "docx_zip"}

\* C16: in PDF text extraction OCR is invoked if and only if fidelity is not fast
\* (absent settings counting as balanced) and either native extraction threw or the
\* concatenated native text of all pages is shorter than 50 characters; when OCR is
\* invoked the text returned is the OCR result, not the native extraction; with
\* fidelity fast a native extraction failure is a failure without OCR.
C16_OcrIffShortOrThrew ==
    extractionOver =>
        /\ call.ocrRan <=>
              (fidelityOf(call) # "fast" /\ (call.threw \/ call.raw < MinTextLength))
        /\ call.ocrRan => (call.text = call.ocrText \/ call.ocrText = "")
        /\ (fidelityOf(call) = "fast" /\ call.threw) => (call.ret = "err" /\ ~call.ocrRan)

\* C17: a failing OCR run never makes the enclosing operation fail. In a pdf -> txt
\* or pdf -> docx conversion it yields the fixed placeholder text and the call does
\* not fail; in export/merge the OCR run of a page never ends the export: the page
\* stays in the document, without a text layer when its run failed, the loop goes on
\* to the next page, and the document that is saved holds every page of the list.
C17_OcrFailureIsNotFatal ==
    /\ [](call.ocrFailed =>
             /\ call.ret # "err"
             /\ call.text = OcrPlaceholder
             /\ call.ret = "ok" => (call.blob # NoBlob /\ ~call.blob.same))
    /\ [][/\ job.pc = "ocr" =>
                /\ job'.pc = "export"
                /\ job'.i = job.i + 1
                /\ Len(job'.doc) = Len(job.doc)
                /\ (job'.ocrFailed /\ ~job.ocrFailed) => ~job'.doc[Len(job.doc)].layer
          /\ download' # NoDownload =>
                /\ download'.doc = job.doc
                /\ Len(job.doc) = Len(job.final)]_vars

\* an export of two pages is saved although the OCR run of its first page failed
C17_Witness ==
    /\ download # NoDownload
    /\ download.ocrFailed
    /\ Len(download.doc) = 2
    /\ ~download.doc[1].layer
    /\ download.doc[2].layer

----------------------------------------------------------------------------
(* Claims about the assembly of pages *)

\* the pages an entry of the merged list stands for: <<file name, page index>>, the
\* index being 0 for an image
pagesOfEntry(entry) ==
    IF isMultiPagePDF(entry)
    THEN [k \in 1..entry.totalPages |-> <<entry.originalFile.name, k>>]
    ELSE IF entry.type = "pdf"
    THEN << <<entry.originalFile.name,
              IF entry.pageNumber # 0 THEN entry.pageNumber ELSE 1>> >>
    ELSE << <<entry.originalFile.name, 0>> >>

RECURSIVE pagesOfList(_)
pagesOfList(list) ==
    IF list = <<>> THEN <<>> ELSE pagesOfEntry(Head(list)) \o pagesOfList(Tail(list))

RECURSIVE pageCount(_)
pageCount(list) ==
    IF list = <<>> THEN 0
    ELSE (IF isMultiPagePDF(Head(list)) THEN Head(list).totalPages ELSE 1)
         + pageCount(Tail(list))

hasMultiPageEntry(list) == \E i \in 1..Len(list) : isMultiPagePDF(list[i])

\* C18: the PDF a merge saves for a list that holds a multi-page PDF entry beside
\* other entries has as many pages as the multi-page entries have pages plus one per
\* other entry, in list order, the pages of each expanded PDF in their original
\* order at the place of their entry.
C18_MergeExpandsInPlace ==
    [][(/\ download' # NoDownload
        /\ job.by = "merge"
        /\ Len(job.src) > 1
        /\ hasMultiPageEntry(job.src)) =>
            /\ Len(download'.doc) = pageCount(job.src)
            /\ [i \in 1..Len(download'.doc) |->
                   <<download'.doc[i].file.name, download'.doc[i].index>>]
               = pagesOfList(job.src)]_vars

\* an image, a PDF of three pages and a PDF of one page were merged into five pages
C18_Witness ==
    /\ download # NoDownload
    /\ editorToast = Toast("handleMergePDF", "success", "All files merged successfully!")
    /\ [i \in 1..Len(download.doc) |-> <<download.doc[i].file, download.doc[i].index>>]
       = << <<Photo, 0>>, <<ThreePages, 1>>, <<ThreePages, 2>>, <<ThreePages, 3>>,
            <<OnePage, 1>> >>

----------------------------------------------------------------------------
(* Claims about the conversion of JSON to CSV *)

arrayOfObjects(data) ==
    /\ data.kind = "array"
    /\ Len(data.items) > 0
    /\ \A i \in 1..Len(data.items) : data.items[i].kind = "object"

hasFields(row, headers) == \A h \in 1..Len(headers) : headers[h] \in SeqToSet(row.keys)

\* C19: for a JSON input that is a non-empty array of objects the conversion returns
\* a CSV whose first line is the keys of the first object and whose following lines
\* are one per element, each cell being the JSON.stringify of the element's field,
\* whatever the value (strings, zero and non-zero numbers, true, false, null).
C19_CsvMirrorsJson ==
    (call.json # NoJson /\ arrayOfObjects(call.json)) =>
        LET items == call.json.items
            headers == items[1].keys
        IN  /\ call.ret # "err"
            /\ call.ret = "ok" => call.blob = NewBlob(call, "text/csv")
            /\ Len(call.csvRows) = Len(items) + 1
            /\ call.csvRows[1] = join(headers, ",")
            /\ \A i \in 1..Len(items) :
                  hasFields(items[i], headers) =>
                      call.csvRows[i + 1] =
                          join([h \in 1..Len(headers) |->
                                   stringify(property(items[i], headers[h]))], ",")

\* C20: a JSON input that is not an array of objects (a single object, an empty
\* array, an array of primitives, an array whose elements are not all objects, an
\* array of arrays) makes the conversion fail, without an output blob.
C20_NotArrayOfObjectsFails ==
    (call.json \notin {NoJson, Parsed("invalid", <<>>)} /\ ~arrayOfObjects(call.json)) =>
        /\ call.ret = "err"
        /\ call.blob = NoBlob
        /\ call.csvRows = <<>>

----------------------------------------------------------------------------
(* Claims about the dispatch to txt and the progress values *)

unsupportedType(c) ==
    c.ret = "err" /\ startsWith(c.err, "Conversion failed: Unsupported file type")

\* C24: conversion to txt is dispatched by category: a pdf file goes through the PDF
\* text extraction, a text file is passed through, and no file of the categories
\* pdf, document, spreadsheet and text fails as an unsupported type, whatever its
\* extension or MIME type within the category.
C24_TextDispatchByCategory ==
    (/\ call.pc = "done"
     /\ call.target = "txt"
     /\ categoryOf(call) \in {"pdf", "document", "spreadsheet", "text"}) =>
        /\ ~unsupportedType(call)
        /\ categoryOf(call) = "pdf" => call.sub = "txt"
        /\ categoryOf(call) = "text" => (call.ret = "ok" /\ call.blob = SameFile(call))

\* C25: every value passed to onProgress by convertFile, its converters, the page
\* loop of the PDF text extraction and the OCR logger is an integer between 0 and
\* 100, whatever the number of pages and the OCR progress reports.
C25_ProgressIsIntegerPercent ==
    \A i \in 1..Len(log) :
        /\ PIsInt(log[i])
        /\ PLeq(P(0), log[i])
        /\ PLeq(log[i], P(100))

----------------------------------------------------------------------------
(* Claims about the selections of the bulk converter                        *)

queueIds == {queue[i].id : i \in 1..Len(queue)}

\* C29: every id held in selectedIds and in selectedFiles is the id of an item
\* that is in the queue, whatever adds, selections, removals and conversions
\* came before.
C29_SelectionsReferToQueue ==
    /\ selectedIds \subseteq queueIds
    /\ SeqToSet(selectedFiles) \subseteq queueIds
----------------------------------------------------------------------------
(* Claims about removal from the queue                                      *)

without(q, i) == [j \in 1..(Len(q) - 1) |-> IF j < i THEN q[j] ELSE q[j + 1]]

\* C23: an id removed from the queue never comes back: the ids in the queue are
\* distinct and below nextId, a step puts into the queue only ids from nextId on
\* (so the updates of a conversion in flight for a removed item add nothing),
\* and a step that shortens the queue takes out one item, or all of them, and
\* leaves the other items as they were.
C23_RemovedStaysRemoved ==
    /\ [](/\ \A i \in 1..Len(queue) : queue[i].id < nextId
          /\ \A i, j \in 1..Len(queue) : queue[i].id = queue[j].id => i = j)
    /\ [][/\ nextId' >= nextId
          /\ \A j \in 1..Len(queue') : queue'[j].id \in queueIds \/ queue'[j].id >= nextId
          /\ Len(queue') < Len(queue) =>
                \/ queue' = <<>>
                \/ \E i \in 1..Len(queue) : queue' = without(queue, i)]_vars

\* a Convert All loop has gone past an item that was removed while an earlier
\* item was converting, and the other items are still in the queue
C23_Witness ==
    /\ batch.op = "convertAll"
    /\ queue # <<>>
    /\ \E k \in 1..(batch.idx - 1) : batch.items[k].id \notin queueIds
----------------------------------------------------------------------------
(* Claims about the size of the queue                                       *)

\* C22: the queue never holds more than MAX_FILES (100) files.
C22_QueueAtMostMaxFiles == Len(queue) <= MAX_FILES
----------------------------------------------------------------------------
(* Claims about the ZIP download                                            *)

\* the file name without its last segment (the whole name when it has no dot)
basename(filename) ==
    IF Len(filename) <= 1 THEN filename ELSE SubSeq(filename, 1, Len(filename) - 1)

\* C21: the archive made by createZipDownload has one entry for each converted
\* item given to it, named by the item's file name without its extension, then
\* the extension of the target format, and holding the item's converted file.
C21_OneEntryPerItem ==
    archive # NoArchive =>
        /\ Len(archive.zip) = Len(archive.items)
        /\ \A i \in 1..Len(archive.items) :
              \E j \in 1..Len(archive.zip) :
                 /\ archive.zip[j].name = basename(archive.items[i].filename)
                                              \o <<getFileExtension(archive.targetFormat)>>
                 /\ archive.zip[j].blob = archive.items[i].convertedBlob

\* the format a converted file is in, where its type tells
formatOfBlob(blob) ==
    CASE blob.type = "application/pdf" -> "pdf"
      [] blob.type = "image/png" -> "png"
      [] blob.type = "image/jpeg" -> "jpg"
      [] blob.type = "text/plain" -> "txt"
      [] blob.type = "text/csv" -> "csv"
      [] OTHER -> Undefined

\* C30: the extension of every entry of the archive is the one of the format
\* the converted file of the entry is in.
C30_ExtensionIsBlobFormat ==
    \A j \in 1..Len(archive.zip) :
       LET entry == archive.zip[j] IN
       formatOfBlob(entry.blob) # Undefined =>
           entry.name[Len(entry.name)] = getFileExtension(formatOfBlob(entry.blob))
----------------------------------------------------------------------------
(* Claims about the pages of an exported or merged PDF                      *)

autoSplit(j) == j.by = "merge" /\ Len(j.src) > 1 /\ hasMultiPageEntry(j.src)

\* the rotation of the entry of each output page, where `split` says that the
\* multi-page entries were expanded into their pages
RECURSIVE rotationsOfList(_, _)
rotationsOfList(list, split) ==
    IF list = <<>> THEN <<>>
    ELSE LET entry == Head(list)
             n == IF split /\ isMultiPagePDF(entry) THEN entry.totalPages ELSE 1
         IN  [k \in 1..n |-> entry.rotation] \o rotationsOfList(Tail(list), split)

\* C26: every page of the PDF saved by an export or a merge has the rotation of
\* its entry of the page list, the pages of a multi-page entry expanded at the
\* merge included.
C26_OutputCarriesRotation ==
    [][download' # NoDownload =>
          [i \in 1..Len(download'.doc) |-> download'.doc[i].rotation]
          = rotationsOfList(job.src, autoSplit(job))]_vars
\* the page of its file that an entry stands for (0 for an image)
pageOfEntry(entry) ==
    IF entry.type = "pdf" THEN (IF entry.pageNumber # 0 THEN entry.pageNumber ELSE 1) ELSE 0

\* C28: the PDF saved by exportPDF has one page for each entry of the list it
\* was given, in the order of the list; a multi-page PDF that is one entry of
\* an exported list, or the only entry of a merged list, gives its first page
\* alone.
C28_OnePagePerEntry ==
    [][download' # NoDownload =>
          /\ Len(download'.doc) = Len(job.final)
          /\ \A i \in 1..Len(job.final) :
                /\ download'.doc[i].file = job.final[i].originalFile
                /\ download'.doc[i].index = pageOfEntry(job.final[i])
          /\ ~autoSplit(job) =>
                /\ Len(download'.doc) = Len(job.src)
                /\ \A i \in 1..Len(job.src) :
                      isMultiPagePDF(job.src[i]) =>
                          /\ download'.doc[i].file = job.src[i].originalFile
                          /\ download'.doc[i].index = 1]_vars

\* a PDF of three pages, selected alone beside another file, was merged into a
\* PDF of its first page
C28_Witness ==
    /\ download # NoDownload
    /\ download.filename = "selected-merged.pdf"
    /\ Len(pages) > 1
    /\ [i \in 1..Len(download.doc) |-> <<download.doc[i].file, download.doc[i].index>>]
       = << <<ThreePages, 1>> >>
----------------------------------------------------------------------------
(* Claims about the pagination of a text                                    *)

\* the lines that fit on a page between its top and bottom margins
linesPerPage == ((PageSize.height - 2 * margin) \div lineHeight) + 1

\* C27: the lines of a text are drawn once each, in order; no page receives
\* more lines than fit on it, and the lines past a full page are drawn on the
\* page added for them.
C27_LinesFlowOntoNewPages ==
    layout.pc = "done" =>
        /\ [i \in 1..Len(layout.drawn) |-> layout.drawn[i].line]
           = [i \in 1..layout.lines |-> i]
        /\ \A p \in 1..layout.pages :
              Cardinality({i \in 1..Len(layout.drawn) : layout.drawn[i].page = p})
                  <= linesPerPage
        /\ \A i \in 1..Len(layout.drawn) :
              layout.drawn[i].page = ((i - 1) \div linesPerPage) + 1
====
